---- MODULE Spec2Model ----
(***************************************************************************)
(* Model of the documentation service of the Odoo chatbot backend          *)
(* (backend/services/odooDocService.js): the in-memory index, its snapshot *)
(* files, the initialisation steps, the background indexing run and the    *)
(* query operations.                                                       *)
(*                                                                         *)
(* Every await of the JavaScript code is a point where another task of the *)
(* event loop (a request, another pending continuation) may run, so each   *)
(* action below is the code between two awaits.  A process crash may       *)
(* happen between any two actions; it loses the memory and keeps the files.*)
(* Time is counted in hours.                                               *)
(***************************************************************************)
EXTENDS Integers, Sequences, FiniteSets, TLC

(***************************************************************************)
(* Bounds of the model.                                                    *)
(***************************************************************************)
NumFiles == 3           \* files of a corpus of Spec
LongFiles == 52         \* files of the corpus of SpecLong
MaxStarts == 2          \* process starts (constructions of the service)
MaxTicks == 2           \* advances of the clock
MaxInits == 2           \* calls of initializeCache in one process (SpecReinit)
StartTime == 100        \* clock value of the first state

(***************************************************************************)
(* Program constants.                                                      *)
(***************************************************************************)
UpdateInterval == 24    \* this.updateInterval, 86400000 ms
SaveEvery == 50         \* progressive save every 50 indexed documents
CacheVersion == "4.0"
CacheSource == "GitHub"

Null == <<>>            \* null: an absent value; a present value t is <<t>>
Some(t) == <<t>>

VARIABLES
  now,                 \* Date.now(), in hours
  ticks,               \* clock advances so far
  corpusExists,        \* githubDocPath is a directory
  corpus,              \* file -> "ok" | "short" | "unreadable"
  indexFile,           \* github-documentation-index.json
  metaFile,            \* github-metadata.json
  up,                  \* the process is running
  starts,              \* process starts so far
  inits,               \* calls of initializeCache in this process
  initPc,              \* position of initializeCache
  documentationIndex,  \* this.documentationIndex: entries in insertion order
  lastUpdate,          \* this.lastUpdate
  runs,                \* the backgroundIndexing calls of this process
  metrics,             \* this.metrics: the four counters
  response             \* what a query operation called in the last step gave

vars == <<now, ticks, corpusExists, corpus, indexFile, metaFile, up, starts,
          inits, initPc, documentationIndex, lastUpdate, runs, metrics, response>>

(***************************************************************************)
(* Strings.  A JavaScript string is a TLA+ string where it is stored and   *)
(* compared, and the sequence of its characters, Chars(s), where the code  *)
(* looks into it.  The characters of the model are the ASCII letters, the  *)
(* accented letters of the dictionaries, the space and the punctuation of  *)
(* the queries; the only white space is the space.                         *)
(***************************************************************************)
\* The characters of a string, each a string of length one.
Chars(s) == [k \in 1..Len(s) |-> SubSeq(s, k, k)]

UpperLetters == <<"A","B","C","D","E","F","G","H","I","J","K","L","M",
                  "N","O","P","Q","R","S","T","U","V","W","X","Y","Z","É">>

LowerLetters == <<"a","b","c","d","e","f","g","h","i","j","k","l","m",
                  "n","o","p","q","r","s","t","u","v","w","x","y","z","é">>

LowerChar(c) ==
  IF \E k \in 1..Len(UpperLetters) : UpperLetters[k] = c
    THEN LowerLetters[CHOOSE k \in 1..Len(UpperLetters) : UpperLetters[k] = c]
    ELSE c

\* String.prototype.toLowerCase
toLowerCase(cs) == [k \in 1..Len(cs) |-> LowerChar(cs[k])]

\* text.startsWith(pat, i) with i counted from 0
MatchesAt(text, pat, i) ==
  /\ i + Len(pat) <= Len(text)
  /\ \A j \in 1..Len(pat) : text[i + j] = pat[j]

\* String.prototype.includes
Includes(text, pat) == \E i \in 0..Len(text) : MatchesAt(text, pat, i)

\* String.prototype.replace(pat, rep) with a string pattern: the first
\* occurrence only.
ReplaceFirst(text, pat, rep) ==
  IF Includes(text, pat)
    THEN LET i == CHOOSE i \in 0..Len(text) :
                    /\ MatchesAt(text, pat, i)
                    /\ \A h \in 0..(i - 1) : ~MatchesAt(text, pat, h)
         IN SubSeq(text, 1, i) \o rep \o SubSeq(text, i + Len(pat) + 1, Len(text))
    ELSE text

\* String.prototype.split(/\s+/): the pieces between the runs of white
\* space, an empty piece before a leading run and after a trailing one.
WordStarts(cs) == { k \in 1..Len(cs) : cs[k] # " " /\ (k = 1 \/ cs[k - 1] = " ") }

\* The position after the word that starts at k.
WordEnd(cs, k) ==
  CHOOSE e \in (k + 1)..(Len(cs) + 1) :
    /\ e = Len(cs) + 1 \/ cs[e] = " "
    /\ \A j \in k..(e - 1) : cs[j] # " "

\* The elements of a set of numbers in increasing order.
Ascending(S) ==
  [i \in 1..Cardinality(S) |-> CHOOSE k \in S : Cardinality({ j \in S : j < k }) = i - 1]

SplitWhitespace(cs) ==
  IF cs = <<>> THEN << <<>> >>
  ELSE LET at == Ascending(WordStarts(cs))
           words == [i \in 1..Len(at) |-> SubSeq(cs, at[i], WordEnd(cs, at[i]) - 1)]
       IN (IF cs[1] = " " THEN << <<>> >> ELSE <<>>)
          \o words
          \o (IF cs[Len(cs)] = " " THEN << <<>> >> ELSE <<>>)

\* [...new Set(xs)]: the first occurrence of each element, in order.
RECURSIVE Distinct(_)
Distinct(xs) ==
  IF xs = <<>> THEN <<>>
  ELSE LET front == Distinct(SubSeq(xs, 1, Len(xs) - 1))
           x == xs[Len(xs)]
       IN IF \E k \in 1..Len(front) : front[k] = x THEN front ELSE Append(front, x)

RECURSIVE Concat(_)
Concat(xss) == IF xss = <<>> THEN <<>> ELSE Head(xss) \o Concat(Tail(xss))

(***************************************************************************)
(* new RegExp(term, 'g'): the syntax check of the constructor and the      *)
(* matching, for patterns made of literal characters, ".", the quantifiers *)
(* "*", "+", "?" (greedy or lazy), and for the syntax check also groups,   *)
(* alternation, classes and escapes.  Braces are not modelled.             *)
(***************************************************************************)
\* The position of the "]" closing the class opened before position k, or 0.
RECURSIVE ClassEnd(_, _)
ClassEnd(p, k) ==
  IF k > Len(p) THEN 0
  ELSE IF p[k] = "]" THEN k
  ELSE IF p[k] = "\\" THEN ClassEnd(p, k + 2)
  ELSE ClassEnd(p, k + 1)

\* atom: the text before k ends in something a quantifier can repeat;
\* quant: it ends in a quantifier, which a "?" can make lazy.
RECURSIVE RegExpScan(_, _, _, _, _)
RegExpScan(p, k, depth, atom, quant) ==
  IF k > Len(p) THEN depth = 0
  ELSE LET c == p[k] IN
    CASE c \in {"*", "+"} -> atom /\ RegExpScan(p, k + 1, depth, FALSE, TRUE)
      [] c = "?" -> IF atom THEN RegExpScan(p, k + 1, depth, FALSE, TRUE)
                    ELSE quant /\ RegExpScan(p, k + 1, depth, FALSE, FALSE)
      [] c = "(" -> IF k + 2 <= Len(p) /\ p[k + 1] = "?" /\ p[k + 2] \in {":", "=", "!"}
                      THEN RegExpScan(p, k + 3, depth + 1, FALSE, FALSE)
                      ELSE RegExpScan(p, k + 1, depth + 1, FALSE, FALSE)
      [] c = ")" -> depth > 0 /\ RegExpScan(p, k + 1, depth - 1, TRUE, FALSE)
      [] c \in {"|", "^", "$"} -> RegExpScan(p, k + 1, depth, FALSE, FALSE)
      [] c = "[" -> ClassEnd(p, k + 1) # 0
                    /\ RegExpScan(p, ClassEnd(p, k + 1) + 1, depth, TRUE, FALSE)
      [] c = "\\" -> k < Len(p) /\ RegExpScan(p, k + 2, depth, TRUE, FALSE)
      [] OTHER -> RegExpScan(p, k + 1, depth, TRUE, FALSE)

\* new RegExp(p) does not throw a SyntaxError.
RegExpCompiles(p) == RegExpScan(p, 1, 0, FALSE, FALSE)

\* The pattern as its atoms: a character (or "." for any), how often at
\* least and at most (-1: without limit), lazily or not.
RECURSIVE RegExpAtoms(_, _)
RegExpAtoms(p, k) ==
  IF k > Len(p) THEN <<>>
  ELSE LET q == IF k < Len(p) /\ p[k + 1] \in {"*", "+", "?"} THEN p[k + 1] ELSE ""
           lazy == q # "" /\ k + 1 < Len(p) /\ p[k + 2] = "?"
           used == 1 + (IF q # "" THEN 1 ELSE 0) + (IF lazy THEN 1 ELSE 0)
       IN << [ch |-> p[k],
              min |-> IF q \in {"*", "?"} THEN 0 ELSE 1,
              max |-> IF q \in {"*", "+"} THEN -1 ELSE 1,
              lazy |-> lazy] >> \o RegExpAtoms(p, k + used)

AtomTakes(atom, c) == atom.ch = "." \/ atom.ch = c

\* How many characters from position pos on the atom can take.
AtomRun(atom, text, pos) ==
  LET most == IF atom.max = -1 \/ atom.max > Len(text) - pos + 1
                THEN Len(text) - pos + 1 ELSE atom.max
      fits == { n \in 0..most : \A j \in 0..(n - 1) : AtomTakes(atom, text[pos + j]) }
  IN CHOOSE n \in fits : \A o \in fits : n >= o

\* The end (the position after the last character) of the match of atoms
\* a, a+1, ... at position pos that the backtracking matcher finds first,
\* or 0 without a match.
RECURSIVE MatchEnd(_, _, _, _)
MatchEnd(atoms, a, text, pos) ==
  IF a > Len(atoms) THEN pos
  ELSE LET atom == atoms[a]
           run == AtomRun(atom, text, pos)
           good == { n \in atom.min..run : MatchEnd(atoms, a + 1, text, pos + n) # 0 }
       IN IF good = {} THEN 0
          ELSE LET n == IF atom.lazy
                          THEN CHOOSE m \in good : \A o \in good : m <= o
                          ELSE CHOOSE m \in good : \A o \in good : m >= o
               IN MatchEnd(atoms, a + 1, text, pos + n)

\* text.match(regexp) under the g flag: the matches from left to right, each
\* search starting where the last match ended, one further after an empty one.
RECURSIVE CountFrom(_, _, _)
CountFrom(matches, ends, pos) ==
  LET found == { s \in matches : s >= pos }
  IN IF found = {} THEN 0
     ELSE LET s == CHOOSE m \in found : \A o \in found : m <= o
              e == ends[s]
          IN 1 + CountFrom(matches, ends, IF e = s THEN s + 1 ELSE e)

\* (text.match(new RegExp(term, 'g')) || []).length
MatchCount(text, term) ==
  LET atoms == RegExpAtoms(term, 1)
      ends == [s \in 1..(Len(text) + 1) |-> MatchEnd(atoms, 1, text, s)]
  IN CountFrom({ s \in DOMAIN ends : ends[s] # 0 }, ends, 1)

(***************************************************************************)
(* preprocessSearchTerms                                                   *)
(***************************************************************************)
\* The synonym dictionary, entry by entry: <<key, synonyms>>.
synonyms ==
  << <<"congé", <<"leave", "vacation", "time off", "absence", "holiday">>>>,
     <<"leave", <<"congé", "vacation", "absence">>>>,
     <<"projet", <<"project", "task", "tache", "planning", "workflow">>>>,
     <<"project", <<"projet", "task", "planning">>>>,
     <<"vente", <<"sales", "sell", "customer", "client", "commercial">>>>,
     <<"sales", <<"vente", "sell", "customer", "commercial">>>>,
     <<"achat", <<"purchase", "vendor", "supplier", "fournisseur", "procurement">>>>,
     <<"purchase", <<"achat", "vendor", "supplier", "fournisseur">>>>,
     <<"stock", <<"inventory", "warehouse", "location", "entrepot">>>>,
     <<"inventory", <<"stock", "warehouse", "location">>>>,
     <<"comptabilité", <<"accounting", "finance", "invoice", "facture", "financial">>>>,
     <<"accounting", <<"comptabilité", "finance", "invoice", "facture">>>>,
     <<"paie", <<"payroll", "salary", "salaire", "wage", "remuneration">>>>,
     <<"payroll", <<"paie", "salary", "salaire", "wage">>>>,
     <<"utilisateur", <<"user", "employee", "employé", "person", "membre">>>>,
     <<"user", <<"utilisateur", "employee", "employé">>>>,
     <<"configuration", <<"config", "setup", "paramètre", "setting", "parameter">>>>,
     <<"setup", <<"configuration", "config", "paramètre">>>>,
     <<"rapport", <<"report", "reporting", "dashboard", "analytics">>>>,
     <<"report", <<"rapport", "reporting", "dashboard">>>>,
     <<"module", <<"addon", "app", "application", "extension">>>>,
     <<"addon", <<"module", "app", "application">>>>,
     <<"API", <<"api", "interface", "endpoint", "webservice">>>>,
     <<"base", <<"database", "db", "donnée", "data">>>>,
     <<"database", <<"base", "db", "donnée">>>>,
     <<"vue", <<"view", "form", "tree", "kanban">>>>,
     <<"view", <<"vue", "form", "tree">>>>,
     <<"modèle", <<"model", "table", "record", "data">>>>,
     <<"model", <<"modèle", "table", "record">>>>,
     <<"champ", <<"field", "column", "attribute", "property">>>>,
     <<"field", <<"champ", "column", "attribute">>>>,
     <<"workflow", <<"flux", "process", "processus", "sequence">>>>,
     <<"process", <<"workflow", "flux", "processus">>>>,
     <<"email", <<"mail", "message", "notification", "courrier">>>>,
     <<"mail", <<"email", "message", "notification">>>>,
     <<"website", <<"site", "web", "portal", "ecommerce">>>>,
     <<"portal", <<"website", "site", "web">>>>,
     <<"manufacturing", <<"mrp", "production", "fabrication", "usine">>>>,
     <<"mrp", <<"manufacturing", "production", "fabrication">>>>,
     <<"crm", <<"customer", "lead", "opportunity", "prospect">>>>,
     <<"lead", <<"crm", "prospect", "opportunity">>>>,
     <<"partner", <<"client", "customer", "vendor", "contact">>>>,
     <<"contact", <<"partner", "client", "customer">>>>,
     <<"invoice", <<"facture", "bill", "billing", "facturation">>>>,
     <<"facture", <<"invoice", "bill", "billing">>>>,
     <<"product", <<"produit", "article", "item", "merchandise">>>>,
     <<"produit", <<"product", "article", "item">>>>,
     <<"installation", <<"install", "setup", "deployment", "configuration">>>>,
     <<"install", <<"installation", "setup", "deployment">>>>,
     <<"erreur", <<"error", "bug", "issue", "problem">>>>,
     <<"error", <<"erreur", "bug", "issue", "problem">>>> >>

\* The technical variants.
technicalVariants ==
  << <<"odoo", <<"erp", "openerp", "enterprise">>>>,
     <<"xml", <<"view", "template", "qweb">>>>,
     <<"python", <<"py", "script", "code">>>>,
     <<"javascript", <<"js", "script", "frontend">>>>,
     <<"postgresql", <<"postgres", "db", "database">>>>,
     <<"css", <<"style", "design", "frontend">>>>,
     <<"html", <<"template", "qweb", "frontend">>>> >>

\* The names an object literal inherits from Object.prototype that a
\* lower-cased term can spell: their values are not arrays.
InheritedProperties == <<"constructor", "__proto__">>

\* table[term] of an object literal used as a dictionary.
TableGet(table, term) ==
  IF \E k \in 1..Len(table) : Chars(table[k][1]) = term
    THEN LET k == CHOOSE k \in 1..Len(table) : Chars(table[k][1]) = term
         IN [kind |-> "array",
             items |-> [j \in 1..Len(table[k][2]) |-> Chars(table[k][2][j])]]
    ELSE IF \E k \in 1..Len(InheritedProperties) : Chars(InheritedProperties[k]) = term
      THEN [kind |-> "inherited", items |-> <<>>]
      ELSE [kind |-> "undefined", items |-> <<>>]

RECURSIVE LongerThanTwo(_)
LongerThanTwo(xs) ==
  IF xs = <<>> THEN <<>>
  ELSE (IF Len(Head(xs)) > 2 THEN <<Head(xs)>> ELSE <<>>) \o LongerThanTwo(Tail(xs))

BaseTerms(query) == LongerThanTwo(SplitWhitespace(toLowerCase(query)))

\* enrichedTerms.push(...table[term]) throws a TypeError when the value is
\* there and is no array.
PreprocessThrows(query) ==
  \E k \in 1..Len(BaseTerms(query)) :
     \/ TableGet(synonyms, BaseTerms(query)[k]).kind = "inherited"
     \/ TableGet(technicalVariants, BaseTerms(query)[k]).kind = "inherited"

preprocessSearchTerms(query) ==
  LET base == BaseTerms(query)
      syn == Concat([k \in 1..Len(base) |-> TableGet(synonyms, base[k]).items])
      tech == Concat([k \in 1..Len(base) |-> TableGet(technicalVariants, base[k]).items])
  IN Distinct(base \o syn \o tech)

(***************************************************************************)
(* detectQueryType                                                         *)
(***************************************************************************)
modulePatterns ==
  << <<"hr", <<"congé", "leave", "employee", "hr", "rh", "paie", "payroll", "timesheet">>>>,
     <<"sales", <<"vente", "sales", "customer", "devis", "quote", "order">>>>,
     <<"purchase", <<"achat", "purchase", "vendor", "supplier", "procurement">>>>,
     <<"inventory", <<"stock", "inventory", "warehouse", "location">>>>,
     <<"accounting", <<"comptabilité", "accounting", "facture", "invoice", "financial">>>>,
     <<"project", <<"projet", "project", "task", "planning">>>>,
     <<"manufacturing", <<"manufacturing", "mrp", "production", "bom">>>>,
     <<"website", <<"website", "ecommerce", "portal", "web">>>>,
     <<"crm", <<"crm", "lead", "opportunity", "prospect">>>> >>

actionPatterns ==
  << <<"configuration", <<"configuration", "setup", "config", "paramètre">>>>,
     <<"development", <<"développement", "development", "code", "python", "xml", "api">>>>,
     <<"installation", <<"installation", "install", "deployment">>>>,
     <<"usage", <<"utilisation", "usage", "comment", "how to">>>>,
     <<"troubleshooting", <<"erreur", "error", "problem", "bug", "issue">>>>,
     <<"reporting", <<"rapport", "report", "dashboard", "analytics">>>> >>

technicalWords == <<"api", "python", "xml", "développement", "code", "custom">>

beginnerWords == <<"comment", "how", "pourquoi", "why", "what", "que">>

\* keywords.some(keyword => text.includes(keyword))
IncludesAny(text, words) == \E k \in 1..Len(words) : Includes(text, Chars(words[k]))

\* The keys of the table with a keyword in the query, in the table's order.
RECURSIVE DetectedIn(_, _)
DetectedIn(table, queryLower) ==
  IF table = <<>> THEN <<>>
  ELSE (IF IncludesAny(queryLower, Head(table)[2]) THEN <<Head(table)[1]>> ELSE <<>>)
       \o DetectedIn(Tail(table), queryLower)

\* A classifier whose two complexity tests are made one after the other.
detectQueryTypeOfBothLevels(query) ==
  LET queryLower == toLowerCase(query)
      types == DetectedIn(modulePatterns, queryLower)
               \o DetectedIn(actionPatterns, queryLower)
               \o (IF IncludesAny(queryLower, technicalWords) THEN <<"technical">>
                   ELSE <<>>)
               \o (IF IncludesAny(queryLower, beginnerWords) THEN <<"beginner">>
                   ELSE <<>>)
  IN IF Len(types) > 0 THEN types ELSE <<"general">>

detectQueryType(query) ==
  LET queryLower == toLowerCase(query)
      types == DetectedIn(modulePatterns, queryLower)
               \o DetectedIn(actionPatterns, queryLower)
               \o (IF IncludesAny(queryLower, technicalWords) THEN <<"technical">>
                   ELSE IF IncludesAny(queryLower, beginnerWords) THEN <<"beginner">>
                   ELSE <<>>)
  IN IF Len(types) > 0 THEN types ELSE <<"general">>

Has(xs, x) == \E k \in 1..Len(xs) : xs[k] = x

(***************************************************************************)
(* calculateAdaptiveScore.  Scores are counted in thousandths, so that the *)
(* logarithmic bonus has a value: LogBonus(n) is min(ln(n + 1) * 15, 50).  *)
(***************************************************************************)
Thousand == 1000

LogTable ==
  <<10397, 16479, 20794, 24141, 26876, 29188, 31191, 32958, 34538, 35968,
    37273, 38474, 39585, 40620, 41588, 42498, 43355, 44166, 44935, 45667,
    46365, 47032, 47670, 48283, 48871, 49437, 49983>>

LogBonus(n) == IF n > Len(LogTable) THEN 50 * Thousand ELSE LogTable[n]

\* The score one term adds.
TermScore(doc, term) ==
  LET titleLower == toLowerCase(Chars(doc.title))
      descLower == toLowerCase(Chars(doc.description))
      contentLower == toLowerCase(Chars(doc.content))
      contentMatches == MatchCount(contentLower, term)
  IN (IF Includes(titleLower, term)
        THEN 100 + (IF titleLower = term THEN 50 ELSE 0) ELSE 0) * Thousand
     + (IF Includes(descLower, term) THEN 40 ELSE 0) * Thousand
     + (IF contentMatches > 0 THEN LogBonus(contentMatches) ELSE 0)
     + (IF Includes(toLowerCase(Chars(doc.section)), term) THEN 25 ELSE 0) * Thousand
     + (IF doc.subsection # "" /\ Includes(toLowerCase(Chars(doc.subsection)), term)
          THEN 20 ELSE 0) * Thousand

RECURSIVE Sum(_)
Sum(xs) == IF xs = <<>> THEN 0 ELSE Head(xs) + Sum(Tail(xs))

getTypeSpecificBonus(doc, queryType) ==
  LET docSection == toLowerCase(Chars(doc.section))
      docTitle == toLowerCase(Chars(doc.title))
      docContent == toLowerCase(Chars(doc.content))
      Bonus(type) ==
        CASE type = "hr" ->
               IF IncludesAny(docSection, <<"hr", "timesheet">>)
                  \/ IncludesAny(docTitle, <<"employee", "leave", "payroll">>)
                 THEN 150 ELSE 0
          [] type = "sales" ->
               IF IncludesAny(docSection, <<"sales", "crm">>)
                  \/ IncludesAny(docTitle, <<"customer", "quote">>)
                 THEN 120 ELSE 0
          [] type = "accounting" ->
               IF IncludesAny(docSection, <<"accounting">>)
                  \/ IncludesAny(docTitle, <<"invoice", "payment">>)
                 THEN 120 ELSE 0
          [] type = "development" ->
               IF IncludesAny(docSection, <<"developer">>)
                  \/ IncludesAny(docContent, <<"python", "xml", "api">>)
                 THEN 100 ELSE 0
          [] type = "configuration" ->
               IF IncludesAny(docTitle, <<"configuration", "setup">>)
                  \/ IncludesAny(docContent, <<"setting">>)
                 THEN 80 ELSE 0
          [] type = "beginner" ->
               (IF IncludesAny(docTitle, <<"introduction", "getting started">>)
                   \/ IncludesAny(docContent, <<"step by step">>)
                  THEN 60 ELSE 0)
               - (IF IncludesAny(docContent, <<"advanced", "customize", "override">>)
                    THEN 30 ELSE 0)
          [] type = "technical" ->
               IF IncludesAny(docContent, <<"api", "code", "development">>)
                 THEN 80 ELSE 0
          [] OTHER -> 0
  IN Sum([k \in 1..Len(queryType) |-> Bonus(queryType[k])]) * Thousand

HoursPerMonth == 720

applyQualityAdjustments(doc, queryType, t) ==
  LET docContent == toLowerCase(Chars(doc.content))
      docTitle == toLowerCase(Chars(doc.title))
      age == t - doc.lastUpdated
  IN ( (IF doc.wordCount > 500 THEN 10 ELSE 0)
     + (IF doc.wordCount > 1000 THEN 10 ELSE 0)
     + (IF age < 6 * HoursPerMonth THEN 15
        ELSE IF age < 12 * HoursPerMonth THEN 5 ELSE 0)
     - (IF ~Has(queryType, "technical") /\ ~Has(queryType, "development")
           /\ IncludesAny(docContent, <<"class ", "def ", "import ", "from ">>)
          THEN 40 ELSE 0)
     + (IF IncludesAny(Chars(doc.section), <<"user", "administration", "applications">>)
          THEN 15 ELSE 0)
     - (IF doc.wordCount < 100 THEN 20 ELSE 0)
     + (IF Len(docTitle) > 10 /\ Len(docTitle) < 100 THEN 5 ELSE 0) ) * Thousand

Clamp(score) ==
  IF score < 0 THEN 0 ELSE IF score > 1000 * Thousand THEN 1000 * Thousand ELSE score

\* new RegExp(term, 'g') throws for one of the terms.
ScoreThrows(searchTerms) == \E k \in 1..Len(searchTerms) : ~RegExpCompiles(searchTerms[k])

calculateAdaptiveScore(doc, searchTerms, originalQuery, queryType, contextualTerms, t) ==
  LET Term(term) == TermScore(doc, term)
      titleLower == toLowerCase(Chars(doc.title))
      contentLower == toLowerCase(Chars(doc.content))
      Context(term) ==
        IF Includes(titleLower, toLowerCase(Chars(term)))
           \/ Includes(contentLower, toLowerCase(Chars(term)))
          THEN 30 * Thousand ELSE 0
  IN Clamp( Sum([k \in 1..Len(searchTerms) |-> Term(searchTerms[k])])
            + (IF Includes(contentLower, toLowerCase(originalQuery))
                 THEN 80 * Thousand ELSE 0)
            + getTypeSpecificBonus(doc, queryType)
            + Sum([k \in 1..Len(contextualTerms) |-> Context(contextualTerms[k])])
            + applyQualityAdjustments(doc, queryType, t) )

(***************************************************************************)
(* searchDocumentation                                                     *)
(***************************************************************************)
DefaultLimit == 20

QualityFloor == 10

DefaultOptions ==
  [limit |-> DefaultLimit, section |-> Null, minScore |-> 0, contextualTerms |-> <<>>]

\* A search without the section filter.
PassesAnySection(doc, options) == TRUE

\* if (section && doc.section !== section) continue
PassesSection(doc, options) ==
  options.section = Null \/ options.section = Some("") \/ doc.section = options.section[1]

\* {...doc, score}
WithScore(doc, score) ==
  [f \in DOMAIN doc \cup {"score"} |-> IF f = "score" THEN score ELSE doc[f]]

\* A search that leaves the results in the order of the index.
KeepOrder(xs) == xs

\* A sort that puts a result before those of the same score.
RECURSIVE InsertBeforeEqual(_, _)
InsertBeforeEqual(sorted, x) ==
  IF sorted = <<>> THEN <<x>>
  ELSE IF Head(sorted).score > x.score
    THEN <<Head(sorted)>> \o InsertBeforeEqual(Tail(sorted), x)
    ELSE <<x>> \o sorted

\* results.sort((a, b) => b.score - a.score): stable, by decreasing score.
RECURSIVE InsertByScore(_, _)
InsertByScore(sorted, x) ==
  IF sorted = <<>> THEN <<x>>
  ELSE IF Head(sorted).score >= x.score
    THEN <<Head(sorted)>> \o InsertByScore(Tail(sorted), x)
    ELSE <<x>> \o sorted

RECURSIVE SortByScore(_)
SortByScore(xs) ==
  IF xs = <<>> THEN <<>>
  ELSE InsertByScore(SortByScore(SubSeq(xs, 1, Len(xs) - 1)), xs[Len(xs)])

\* The loop over the index: the records that pass the section filter and
\* reach minScore, each with its score, in the order of the index.
RECURSIVE ScoredFrom(_, _, _, _, _, _)
ScoredFrom(idx, searchTerms, query, queryType, options, t) ==
  IF idx = <<>> THEN <<>>
  ELSE LET doc == Head(idx)
           score == calculateAdaptiveScore(doc, searchTerms, query, queryType,
                                           options.contextualTerms, t)
       IN (IF PassesSection(doc, options) /\ score >= options.minScore * Thousand
             THEN <<WithScore(doc, score)>> ELSE <<>>)
          \o ScoredFrom(Tail(idx), searchTerms, query, queryType, options, t)

\* A search that keeps the results of every score.
NoFloor(xs) == xs

RECURSIVE AboveFloor(_)
AboveFloor(xs) ==
  IF xs = <<>> THEN <<>>
  ELSE (IF Head(xs).score > QualityFloor * Thousand THEN <<Head(xs)>> ELSE <<>>)
       \o AboveFloor(Tail(xs))

SummaryPrefix == "Ces informations proviennent de la documentation "

SourceSummary(section) ==
  Chars(SummaryPrefix)
  \o ReplaceFirst(ReplaceFirst(ReplaceFirst(Chars(section),
                    Chars("/applications/"), <<>>), Chars("/developer/"), <<>>),
                  <<"_">>, <<" ">>)

\* The call throws when a term names an inherited property of the dictionary,
\* or when a document is scored and a term is no regular expression.
SearchThrows(query, options, idx) ==
  \/ PreprocessThrows(query)
  \/ /\ \E k \in 1..Len(idx) : PassesSection(idx[k], options)
     /\ ScoreThrows(preprocessSearchTerms(query))

\* The value of searchDocumentation(query, options) on the index idx at time
\* t, query being the characters of the query string.  (The excerpt of a
\* result is left out.)
searchDocumentation(query, options, idx, t) ==
  IF SearchThrows(query, options, idx)
    THEN [threw |-> TRUE, results |-> <<>>, sourcesSummary |-> <<>>]
    ELSE LET searchTerms == preprocessSearchTerms(query)
             queryType == detectQueryType(query)
             qualityResults ==
               AboveFloor(SortByScore(ScoredFrom(idx, searchTerms, query, queryType,
                                                 options, t)))
             sections == Distinct([k \in 1..Len(qualityResults) |-> qualityResults[k].section])
         IN [threw |-> FALSE,
             results |-> SubSeq(qualityResults, 1,
                                IF Len(qualityResults) < options.limit
                                  THEN Len(qualityResults) ELSE options.limit),
             sourcesSummary |-> [k \in 1..Len(sections) |-> SourceSummary(sections[k])]]

(***************************************************************************)
(* getStats                                                                *)
(***************************************************************************)
getStats(idx, lu) ==
  [totalDocuments |-> Len(idx),
   lastUpdate |-> lu,
   sections |-> [s \in { idx[k].section : k \in 1..Len(idx) } |->
                   Cardinality({ k \in 1..Len(idx) : idx[k].section = s })],
   version |-> "17.0",
   source |-> CacheSource]

(***************************************************************************)
(* The corpus.                                                             *)
(***************************************************************************)
Sections == <<"applications", "developer", "administration">>

SectionOf(f) == Sections[(f % 3) + 1]

ExtOf(f) == IF f % 4 = 0 THEN ".md" ELSE ".rst"

Subsections == <<"hr", "reference", "install">>

SubsectionOf(f) == Subsections[(f % 3) + 1]

\* The path of file f relative to the corpus root:
\* section/subsection/page<f>.<ext>.
RelativePath(f) ==
  [dir |-> SectionOf(f), sub |-> SubsectionOf(f),
   base |-> "page" \o ToString(f), ext |-> ExtOf(f)]

\* Separators become "_", the extension goes; model paths are lower-case.
generateDocumentId(p) == p.dir \o "_" \o p.sub \o "_" \o p.base

\* A corpus is the sequence of its eligible files in traversal order, each
\* given by what reading and cleaning it yields: content of 100 characters or
\* more ("ok"), less ("short"), or a read error ("unreadable").
FileKinds == {"ok", "short", "unreadable"}

KindCycle == <<"unreadable", "ok", "short">>

\* The corpora of the model: no file, pages that all parse, and a mixed one.
CorpusChoices ==
  { <<>>,
    [f \in 1..NumFiles |-> "ok"],
    [f \in 1..NumFiles |-> KindCycle[((f - 1) % 3) + 1]] }

LongCorpus == [f \in 1..LongFiles |-> IF f = 2 THEN "short" ELSE "ok"]

\* scanAllRstFiles: the eligible files in traversal order.
scanAllRstFiles == [k \in 1..Len(corpus) |-> k]

\* What the parser extracts from a file of a section: title, description and
\* cleaned content.
FileTexts ==
  << [title |-> "Time Off", description |-> "Request time off and approve leave",
      content |-> "To request time off open the time off application and create a leave request then the manager approves the leave request"],
     [title |-> "Python Views", description |-> "",
      content |-> "The python api of a view is defined in xml and the class imports fields from odoo to build the form view of the model"],
     [title |-> "Install Odoo", description |-> "",
      content |-> "To install odoo on a server download the package then run the setup and open the database manager to create a database"] >>

\* cleanContent.split(/\s+/).length, for each content of the model.
WordCounts ==
  [c \in { FileTexts[k].content : k \in 1..Len(FileTexts) } \cup {"Too short"} |->
     Len(SplitWhitespace(Chars(c)))]

MinContentLength == 100

Undefined == "undefined"

\* The document record processRstFile builds from a file that was read, whose
\* cleaned content is content.
DocumentOf(f, content, t) ==
  [id |-> generateDocumentId(RelativePath(f)),
   title |-> FileTexts[(f % 3) + 1].title,
   description |-> FileTexts[(f % 3) + 1].description,
   content |-> content,
   section |-> SectionOf(f),
   subsection |-> RelativePath(f).sub,
   wordCount |-> WordCounts[content],
   lastUpdated |-> t,
   metadata |-> [source |-> Undefined,
                 parser |-> IF ExtOf(f) = ".md" THEN "markdown" ELSE "rst"]]

\* The cleaned content of file f: the text of its section, or a text under
\* the minimum length.
CleanContent(f) ==
  IF corpus[f] = "short" THEN "Too short" ELSE FileTexts[(f % 3) + 1].content

\* A parser without the test of line 253: every file that is read gives a
\* record.
processRstFileOfAnyLength(f, t) ==
  IF corpus[f] = "unreadable" THEN Null ELSE Some(DocumentOf(f, CleanContent(f), t))

\* processRstFile: the record of file f, or Null: after a read error, which
\* the method catches itself, and for cleaned content of under 100 characters.
processRstFile(f, t) ==
  IF corpus[f] = "unreadable" \/ Len(CleanContent(f)) < MinContentLength
    THEN Null
    ELSE Some(DocumentOf(f, CleanContent(f), t))

\* The promise of processRstFile is never rejected: the catch of lines
\* 285-288 takes every error of the read and of the parse and returns null,
\* so the catch of the loop, which counts failedFiles, is not entered.
processRstFileRejects(f) == FALSE

(***************************************************************************)
(* The synthetic documents of generateSyntheticDocuments.  The content of  *)
(* each is given by its opening line.                                      *)
(***************************************************************************)
faqData ==
  << [id |-> "faq_hr_leave_config",
      title |-> "Configuration des congés - Guide complet",
      section |-> "hr", subsection |-> "timesheet",
      content |-> "Configuration complète des congés dans Odoo v17",
      wordCount |-> 2500,
      description |-> "Guide complet pour configurer et utiliser le système de congés dans Odoo v17"],
     [id |-> "faq_sales_workflow",
      title |-> "Workflow de vente Odoo - Du prospect à la facture",
      section |-> "sales", subsection |-> "crm",
      content |-> "Workflow complet de vente dans Odoo v17",
      wordCount |-> 2200,
      description |-> "Workflow complet du processus de vente dans Odoo v17"],
     [id |-> "faq_module_development",
      title |-> "Développement de modules Odoo - Guide développeur",
      section |-> "developer", subsection |-> "modules",
      content |-> "Guide complet de développement de modules Odoo v17",
      wordCount |-> 3000,
      description |-> "Guide complet pour développer des modules personnalisés dans Odoo v17"] >>

generateSyntheticDocuments(t) ==
  [k \in 1..Len(faqData) |->
     [id |-> faqData[k].id,
      title |-> faqData[k].title,
      description |-> faqData[k].description,
      content |-> faqData[k].content,
      section |-> faqData[k].section,
      subsection |-> faqData[k].subsection,
      wordCount |-> faqData[k].wordCount,
      lastUpdated |-> t,
      metadata |-> [source |-> "synthetic", parser |-> Undefined]]]

SyntheticIds == { faqData[k].id : k \in 1..Len(faqData) }

(***************************************************************************)
(* The Index Store: a JavaScript Map, as its entries in insertion order.   *)
(***************************************************************************)
Ids(idx) == { idx[k].id : k \in 1..Len(idx) }

\* A re-index that starts from an empty map: the record becomes the only one.
MapSetFresh(idx, doc) == <<doc>>

\* Map.prototype.set: an existing key keeps its place and takes the value.
MapSet(idx, doc) ==
  IF doc.id \in Ids(idx)
    THEN [idx EXCEPT ![CHOOSE k \in 1..Len(idx) : idx[k].id = doc.id] = doc]
    ELSE Append(idx, doc)

RECURSIVE MapSetAll(_, _)
MapSetAll(idx, docs) ==
  IF docs = <<>> THEN idx ELSE MapSetAll(MapSet(idx, Head(docs)), Tail(docs))

(***************************************************************************)
(* Pages of a human resources and sales corpus, as the parser reads them:  *)
(* a page on leave configuration whose content has the word "leave" five   *)
(* times, a page on the sales pipeline, a note of under 50 characters, and *)
(* the leave page once more under another name and in another section.     *)
(***************************************************************************)
LeaveContent ==
  "Leave types are set in the configuration menu where each leave has a name then the leave allocation and the leave approval rule follow the leave policy"

LeavePage ==
  [id |-> "hr_leave_configuration", title |-> "Leave Configuration",
   description |-> "", section |-> "hr", subsection |-> "", content |-> LeaveContent]

SalesPage ==
  [id |-> "sales_sales_pipeline", title |-> "Sales Pipeline",
   description |-> "", section |-> "sales", subsection |-> "",
   content |-> "The pipeline shows every opportunity of the team by stage and a quotation is sent to the customer when the opportunity is won"]

ShortPage ==
  [id |-> "hr_draft_note", title |-> "Draft Note",
   description |-> "", section |-> "hr", subsection |-> "",
   content |-> "Leave this page empty"]

LeaveCopyPage == [LeavePage EXCEPT !.id = "hr_leave_configuration_copy"]

LeaveGuidePage ==
  [LeavePage EXCEPT !.id = "applications_hr_leave_configuration",
                    !.section = "applications", !.subsection = "hr"]

Pages == {LeavePage, SalesPage, ShortPage, LeaveCopyPage, LeaveGuidePage}

\* cleanContent.split(/\s+/).length, for each page.
PageWordCounts ==
  [c \in { x.content : x \in Pages } |-> Len(SplitWhitespace(Chars(c)))]

\* The document record processRstFile builds from a page read at time t.
RecordOf(page, t) ==
  [id |-> page.id,
   title |-> page.title,
   description |-> page.description,
   content |-> page.content,
   section |-> page.section,
   subsection |-> page.subsection,
   wordCount |-> PageWordCounts[page.content],
   lastUpdated |-> t,
   metadata |-> [source |-> Undefined, parser |-> "rst"]]

\* An indexing loop that takes every page, whatever its length.
RECURSIVE IndexOfAny(_, _)
IndexOfAny(pages, t) ==
  IF pages = <<>> THEN <<>>
  ELSE MapSet(IndexOfAny(SubSeq(pages, 1, Len(pages) - 1), t),
              RecordOf(pages[Len(pages)], t))

\* The index the indexing loop builds from the pages at time t: processRstFile
\* gives no record for content of under 100 characters.
RECURSIVE IndexOf(_, _)
IndexOf(pages, t) ==
  IF pages = <<>> THEN <<>>
  ELSE LET page == pages[Len(pages)]
           rest == IndexOf(SubSeq(pages, 1, Len(pages) - 1), t)
       IN IF Len(page.content) < MinContentLength
            THEN rest ELSE MapSet(rest, RecordOf(page, t))

(***************************************************************************)
(* Snapshot files.  A file is missing, partial (opened for writing and not *)
(* completely written: no valid JSON), or holds a JSON value.              *)
(***************************************************************************)
Missing == [kind |-> "missing"]
Partial == [kind |-> "partial"]

\* A save that leaves out the entry set last.
EntriesButLast(idx) == [k \in 1..(Len(idx) - 1) |-> <<idx[k].id, idx[k]>>]

\* Array.from(this.documentationIndex.entries()): the [key, record] pairs in
\* insertion order; the key of an entry is the id of its record.
Entries(idx) == [k \in 1..Len(idx) |-> <<idx[k].id, idx[k]>>]

\* Map.prototype.set(key, record) on the entries read from a file.
MapSetKey(idx, key, doc) ==
  IF key \in Ids(idx)
    THEN [idx EXCEPT ![CHOOSE k \in 1..Len(idx) : idx[k].id = key] = doc]
    ELSE Append(idx, doc)

\* The pairs are set one after the other in the entries idx: those of the
\* first half of the list, then those of the second half.  The length of the
\* first result is taken so that it is evaluated before the second half.
RECURSIVE MapSetPairs(_, _)
MapSetPairs(idx, pairs) ==
  IF pairs = <<>> THEN idx
  ELSE IF Len(pairs) = 1 THEN MapSetKey(idx, pairs[1][1], pairs[1][2])
  ELSE LET half == Len(pairs) \div 2
           first == MapSetPairs(idx, SubSeq(pairs, 1, half))
       IN CASE Len(first) > 0 -> MapSetPairs(first, SubSeq(pairs, half + 1, Len(pairs)))

\* new Map(pairs): the pairs are set one after the other.
FromEntries(pairs) == MapSetPairs(<<>>, pairs)

\* The value saveIndexToCache serialises, as JSON.parse reads it back:
\* strings, numbers, null, arrays and plain objects come back as they were.
IndexData(idx, lu) ==
  [kind |-> "json", version |-> CacheVersion, source |-> CacheSource,
   lastUpdate |-> lu, totalDocuments |-> Len(idx), documents |-> Entries(idx)]

MetaData(idx, t) == [kind |-> "json", createdAt |-> t, totalDocuments |-> Len(idx)]

\* A snapshot an earlier process left: file 1 as indexed then, and a page
\* that has left the corpus since.
OldDocs ==
  << DocumentOf(1, FileTexts[2].content, StartTime - 30),
     [DocumentOf(3, FileTexts[1].content, StartTime - 30)
        EXCEPT !.id = "applications_hr_removed"] >>

InitialIndexFiles ==
  { Missing, Partial }
  \cup { [IndexData(OldDocs, lu) EXCEPT !.version = v, !.source = s] :
           lu \in {Null, Some(StartTime - 1), Some(StartTime - 24), Some(StartTime - 25)},
           v \in {CacheVersion}, s \in {CacheSource} }
  \cup { [IndexData(OldDocs, Some(StartTime - 1)) EXCEPT !.version = "3.0"],
         [IndexData(OldDocs, Some(StartTime - 1)) EXCEPT !.source = "Web"] }

(***************************************************************************)
(* shouldUpdate                                                            *)
(***************************************************************************)
\* A check that is due at every start.
shouldUpdateAlways(lu, t) == TRUE

\* A check with "at least" for "more than".
shouldUpdateNotStrict(lu, t) ==
  IF lu = Null \/ lu = Some(0) THEN TRUE ELSE (t - lu[1]) >= UpdateInterval

\* !this.lastUpdate holds of null and of 0.
shouldUpdate(lu, t) ==
  IF lu = Null \/ lu = Some(0) THEN TRUE ELSE (t - lu[1]) > UpdateInterval

(***************************************************************************)
(* The state after construction: an empty index, no lastUpdate, and        *)
(* initializeCache about to run.                                           *)
(***************************************************************************)
NoResponse == [op |-> "none"]

\* this.metrics of the constructor.
NoMetrics ==
  [totalFiles |-> 0, processedFiles |-> 0, failedFiles |-> 0, totalBytesProcessed |-> 0]

Init ==
  /\ now = StartTime
  /\ ticks = 0
  /\ corpusExists \in BOOLEAN
  /\ corpus \in CorpusChoices
  /\ indexFile \in InitialIndexFiles
  /\ metaFile = Missing
  /\ up = TRUE
  /\ starts = 1
  /\ inits = 1
  /\ initPc = "mkdir"
  /\ documentationIndex = <<>>
  /\ lastUpdate = Null
  /\ runs = <<>>
  /\ metrics = NoMetrics
  /\ response = NoResponse

(***************************************************************************)
(* saveIndexToCache, up to its first await: the value to write is taken    *)
(* from the index and lastUpdate of this moment and the write of the       *)
(* primary file begins.                                                    *)
(***************************************************************************)
\* A run: its position, the loop index i, processedCount, whether the save
\* under way is the final one, what that save writes, and the calls of
\* saveIndexToCache it has made.
RunAt(pc, i, cnt, final, pending, saves) ==
  [pc |-> pc, i |-> i, processedCount |-> cnt, final |-> final, pending |-> pending,
   saves |-> saves]

\* What a call of saveIndexToCache is about to write: indexData and metadata.
\* A save that stamps the snapshot with the time of the save.
PendingStamped(idx, lu, t) ==
  Some([data |-> IndexData(idx, Some(t)), meta |-> MetaData(idx, t)])

Pending(idx, lu, t) == Some([data |-> IndexData(idx, lu), meta |-> MetaData(idx, t)])

\* The run after its loop has handled i files with cnt documents indexed, the
\* index being idx: a progressive save begins, or the final save when the loop
\* is over, or the loop goes on.
AfterFile(i, cnt, idx, progressive, saves) ==
  IF progressive
    THEN RunAt("w_index", i, cnt, FALSE, Pending(idx, lastUpdate, now), saves + 1)
    ELSE IF i = Len(scanAllRstFiles)
      THEN RunAt("w_index", i, cnt, TRUE, Pending(idx, lastUpdate, now), saves + 1)
      ELSE RunAt("loop", i, cnt, FALSE, Null, saves)

\* The run after saveIndexToCache has returned: line 177 after the final save,
\* the next pass of the loop after a progressive one.
AfterSave(run) ==
  IF run.final
    THEN RunAt("enrich", run.i, run.processedCount, TRUE, Null, run.saves)
    ELSE AfterFile(run.i, run.processedCount, documentationIndex, FALSE, run.saves)

\* A run whose line 177 is missing.
LastUpdateKept(run) == lastUpdate

LastUpdateAfterSave(run) == IF run.final THEN Some(now) ELSE lastUpdate

(***************************************************************************)
(* initializeCache                                                         *)
(***************************************************************************)
\* await fs.mkdir(cacheDir): a failure is caught and ends the initialisation.
InitMkdir ==
  /\ up /\ initPc = "mkdir"
  /\ \E ok \in BOOLEAN : initPc' = IF ok THEN "check" ELSE "failed"
  /\ response' = NoResponse
  /\ UNCHANGED <<now, ticks, corpusExists, corpus, indexFile, metaFile, up, starts,
                 inits, documentationIndex, lastUpdate, runs,
                 metrics>>

\* An initialisation that goes on to the load whether the corpus is there or
\* not.
InitCheckAnyCorpus ==
  /\ up /\ initPc = "check"
  /\ initPc' = "load"
  /\ response' = NoResponse
  /\ UNCHANGED <<now, ticks, corpusExists, corpus, indexFile, metaFile, up, starts,
                 inits, documentationIndex, lastUpdate, runs,
                 metrics>>

\* await checkGitHubDocExists(): without the corpus the method returns.
InitCheck ==
  /\ up /\ initPc = "check"
  /\ initPc' = IF corpusExists THEN "load" ELSE "stopped"
  /\ response' = NoResponse
  /\ UNCHANGED <<now, ticks, corpusExists, corpus, indexFile, metaFile, up, starts,
                 inits, documentationIndex, lastUpdate, runs,
                 metrics>>

\* loadIndexFromCache: what it leaves in lastUpdate and the index.
LoadedLastUpdate(file, lu) ==
  IF file.kind = "json" /\ file.version = CacheVersion /\ file.source = CacheSource
    THEN file.lastUpdate ELSE lu

\* A load that takes the documents of any JSON file, whatever its tags.
LoadedIndexUnchecked(file, idx) ==
  IF file.kind = "json" THEN FromEntries(file.documents) ELSE <<>>

LoadedIndex(file, idx) ==
  IF file.kind = "json"
    THEN IF file.version = CacheVersion /\ file.source = CacheSource
           THEN FromEntries(file.documents)   \* new Map(indexData.documents)
           ELSE idx                 \* early return
    ELSE <<>>                       \* catch: documentationIndex.clear()

loadIndexFromCache ==
  /\ lastUpdate' = LoadedLastUpdate(indexFile, lastUpdate)
  /\ documentationIndex' = LoadedIndex(indexFile, documentationIndex)

InitLoad ==
  /\ up /\ initPc = "load"
  /\ loadIndexFromCache
  /\ initPc' = "decide"
  /\ response' = NoResponse
  /\ UNCHANGED <<now, ticks, corpusExists, corpus, indexFile, metaFile, up, starts,
                 inits, runs,
                 metrics>>

\* backgroundIndexing() up to its first await (the scan of the corpus).
LaunchRun == Append(runs, RunAt("scan", 0, 0, FALSE, Null, 0))

\* The code after the load: the staleness check, the launch of the background
\* run without awaiting it, and the service reported ready.
InitDecide ==
  /\ up /\ initPc = "decide"
  /\ runs' = IF shouldUpdate(lastUpdate, now) THEN LaunchRun ELSE runs
  /\ initPc' = "ready"
  /\ response' = NoResponse
  /\ UNCHANGED <<now, ticks, corpusExists, corpus, indexFile, metaFile, up, starts,
                 inits, documentationIndex, lastUpdate,
                 metrics>>

(***************************************************************************)
(* backgroundIndexing: indexGitHubDocumentation, then                      *)
(* enrichDocumentationSources.                                             *)
(***************************************************************************)
\* The scan returns; with no file the final save begins at once.
RunScan(r) ==
  /\ up /\ r \in DOMAIN runs /\ runs[r].pc = "scan"
  /\ LET nxt == AfterFile(0, 0, documentationIndex, FALSE, 0) IN
       /\ runs' = [runs EXCEPT ![r] = IF Len(scanAllRstFiles) = 0 THEN nxt
                                      ELSE RunAt("loop", 0, 0, FALSE, Null, 0)]
       /\ indexFile' = IF Len(scanAllRstFiles) = 0 THEN Partial ELSE indexFile
  /\ response' = NoResponse
  /\ UNCHANGED <<now, ticks, corpusExists, corpus, metaFile, up, starts, inits,
                 initPc, documentationIndex, lastUpdate,
                 metrics>>

\* content.length of the file read: the files of the model have no markup,
\* the text read is the cleaned content.
FileLength(f) == Len(CleanContent(f))

\* Counters that start again with the first file of a run.
CountFileOfRun(m, f, doc) ==
  LET from == IF f = 1 THEN NoMetrics ELSE m
  IN [totalFiles |-> from.totalFiles,
      processedFiles |-> from.processedFiles + (IF doc = Null THEN 0 ELSE 1),
      failedFiles |-> from.failedFiles,
      totalBytesProcessed |-> from.totalBytesProcessed
                                + (IF doc = Null THEN 0 ELSE FileLength(f))]

\* this.metrics after the pass over file f, from which processRstFile gave
\* doc: lines 280-281 for a record, line 171 when the pass throws.  Nothing
\* assigns totalFiles.
CountFile(m, f, doc) ==
  [totalFiles |-> m.totalFiles,
   processedFiles |-> m.processedFiles + (IF doc = Null THEN 0 ELSE 1),
   failedFiles |-> m.failedFiles + (IF processRstFileRejects(f) THEN 1 ELSE 0),
   totalBytesProcessed |-> m.totalBytesProcessed
                             + (IF doc = Null THEN 0 ELSE FileLength(f))]

\* One pass of the loop: processRstFile returns, its record is set in the
\* index, every 50th record starts a progressive save; after the last file
\* the final save starts.
LoopPass(r, f) ==
  LET doc == processRstFile(f, now)
      idx == IF doc = Null THEN documentationIndex
             ELSE MapSet(documentationIndex, doc[1])
      cnt == IF doc = Null THEN runs[r].processedCount
             ELSE runs[r].processedCount + 1
      progressive == doc # Null /\ cnt % SaveEvery = 0
      nxt == AfterFile(runs[r].i + 1, cnt, idx, progressive, runs[r].saves)
  IN /\ documentationIndex' = idx
     /\ runs' = [runs EXCEPT ![r] = nxt]
     /\ indexFile' = IF nxt.pc = "w_index" THEN Partial ELSE indexFile
     /\ metrics' = CountFile(metrics, f, doc)
     /\ response' = NoResponse
     /\ UNCHANGED <<now, ticks, corpusExists, corpus, metaFile, up, starts, inits,
                    initPc, lastUpdate>>

\* A loop without the try of its pass: the failure of a file leaves the loop
\* and indexGitHubDocumentation, whose catch logs it, and the enrichment
\* follows.
RunProcessFileAborting(r) ==
  /\ up /\ r \in DOMAIN runs /\ runs[r].pc = "loop"
  /\ runs[r].i < Len(scanAllRstFiles)
  /\ LET f == scanAllRstFiles[runs[r].i + 1]
     IN IF corpus[f] = "unreadable"
          THEN /\ runs' = [runs EXCEPT ![r].pc = "enrich"]
               /\ response' = NoResponse
               /\ UNCHANGED <<now, ticks, corpusExists, corpus, indexFile, metaFile,
                              up, starts, inits, initPc, documentationIndex,
                              lastUpdate, metrics>>
          ELSE LoopPass(r, f)

RunProcessFile(r) ==
  /\ up /\ r \in DOMAIN runs /\ runs[r].pc = "loop"
  /\ runs[r].i < Len(scanAllRstFiles)
  /\ LoopPass(r, scanAllRstFiles[runs[r].i + 1])

\* The write of the primary file ends: with the value in the file and the
\* write of the metadata file begun, or with an error, which saveIndexToCache
\* catches (it returns without writing the metadata) and which leaves the file
\* as far as it was written.
RunIndexWritten(r) ==
  /\ up /\ r \in DOMAIN runs /\ runs[r].pc = "w_index"
  /\ \E ok \in BOOLEAN :
       IF ok
         THEN /\ indexFile' = runs[r].pending[1].data
              /\ metaFile' = Partial
              /\ runs' = [runs EXCEPT ![r].pc = "w_meta"]
              /\ UNCHANGED lastUpdate
         ELSE /\ indexFile' = Partial
              /\ UNCHANGED metaFile
              /\ lastUpdate' = LastUpdateAfterSave(runs[r])
              /\ runs' = [runs EXCEPT ![r] = AfterSave(runs[r])]
  /\ response' = NoResponse
  /\ UNCHANGED <<now, ticks, corpusExists, corpus, up, starts, inits, initPc,
                 documentationIndex,
                 metrics>>

\* The write of the metadata file ends and saveIndexToCache returns.
RunMetaWritten(r) ==
  /\ up /\ r \in DOMAIN runs /\ runs[r].pc = "w_meta"
  /\ \E ok \in BOOLEAN :
       metaFile' = IF ok THEN runs[r].pending[1].meta ELSE Partial
  /\ lastUpdate' = LastUpdateAfterSave(runs[r])
  /\ runs' = [runs EXCEPT ![r] = AfterSave(runs[r])]
  /\ indexFile' = IF AfterSave(runs[r]).pc = "w_index" THEN Partial ELSE indexFile
  /\ response' = NoResponse
  /\ UNCHANGED <<now, ticks, corpusExists, corpus, up, starts, inits, initPc,
                 documentationIndex,
                 metrics>>

\* An enrichment that adds nothing.
enrichNothing(idx, t) == idx

\* enrichDocumentationSources: the synthetic documents are set in the index.
\* Nothing is saved afterwards.
enrichDocumentationSources(idx, t) == MapSetAll(idx, generateSyntheticDocuments(t))

RunEnrich(r) ==
  /\ up /\ r \in DOMAIN runs /\ runs[r].pc = "enrich"
  /\ documentationIndex' = enrichDocumentationSources(documentationIndex, now)
  /\ runs' = [runs EXCEPT ![r].pc = "done"]
  /\ response' = NoResponse
  /\ UNCHANGED <<now, ticks, corpusExists, corpus, indexFile, metaFile, up, starts,
                 inits, initPc, lastUpdate,
                 metrics>>

(***************************************************************************)
(* The environment: the clock, a crash of the process, a new start.        *)
(***************************************************************************)
Tick ==
  /\ ticks < MaxTicks
  /\ \E d \in {1, UpdateInterval} : now' = now + d
  /\ ticks' = ticks + 1
  /\ response' = NoResponse
  /\ UNCHANGED <<corpusExists, corpus, indexFile, metaFile, up, starts, inits,
                 initPc, documentationIndex, lastUpdate, runs,
                 metrics>>

\* The process dies: the memory is lost, the files stay as they are, a file
\* being written stays partial.
Crash ==
  /\ up
  /\ up' = FALSE
  /\ initPc' = "none"
  /\ documentationIndex' = <<>>
  /\ lastUpdate' = Null
  /\ runs' = <<>>
  /\ metrics' = NoMetrics
  /\ response' = NoResponse
  /\ UNCHANGED <<now, ticks, corpusExists, corpus, indexFile, metaFile, starts, inits>>

\* A new process: the constructor runs and calls initializeCache.
Start ==
  /\ ~up /\ starts < MaxStarts
  /\ up' = TRUE
  /\ starts' = starts + 1
  /\ inits' = 1
  /\ initPc' = "mkdir"
  /\ response' = NoResponse
  /\ UNCHANGED <<now, ticks, corpusExists, corpus, indexFile, metaFile,
                 documentationIndex, lastUpdate, runs,
                 metrics>>

\* initializeCache called again on the exported service object.
ReInitialize ==
  /\ up /\ initPc \in {"ready", "stopped", "failed"}
  /\ inits < MaxInits
  /\ inits' = inits + 1
  /\ initPc' = "mkdir"
  /\ response' = NoResponse
  /\ UNCHANGED <<now, ticks, corpusExists, corpus, indexFile, metaFile, up, starts,
                 documentationIndex, lastUpdate, runs,
                 metrics>>

(***************************************************************************)
(* The query operations, called on the exported object at any moment of a  *)
(* process.                                                                *)
(***************************************************************************)
Queries == {"leave", "c++", "constructor"}

\* A search that writes the score into the record of the index instead of
\* into a copy of it.
SearchInPlace ==
  /\ up
  /\ \E q \in Queries :
       LET value == searchDocumentation(Chars(q), DefaultOptions, documentationIndex, now)
       IN /\ response' = [op |-> "search", query |-> q, value |-> value]
          /\ documentationIndex' =
               [k \in 1..Len(documentationIndex) |->
                  IF \E j \in 1..Len(value.results) :
                       value.results[j].id = documentationIndex[k].id
                    THEN CHOOSE result \in { value.results[j] : j \in 1..Len(value.results) } :
                           result.id = documentationIndex[k].id
                    ELSE documentationIndex[k]]
  /\ UNCHANGED <<now, ticks, corpusExists, corpus, indexFile, metaFile, up, starts,
                 inits, initPc, lastUpdate, runs, metrics>>

Search ==
  /\ up
  /\ \E q \in Queries :
       response' = [op |-> "search", query |-> q,
                    value |-> searchDocumentation(Chars(q), DefaultOptions,
                                                  documentationIndex, now)]
  /\ UNCHANGED <<now, ticks, corpusExists, corpus, indexFile, metaFile, up, starts,
                 inits, initPc, documentationIndex, lastUpdate, runs,
                 metrics>>

GetStats ==
  /\ up
  /\ response' = [op |-> "getStats", value |-> getStats(documentationIndex, lastUpdate)]
  /\ UNCHANGED <<now, ticks, corpusExists, corpus, indexFile, metaFile, up, starts,
                 inits, initPc, documentationIndex, lastUpdate, runs,
                 metrics>>

Run == \E r \in DOMAIN runs :
  RunScan(r) \/ RunProcessFile(r) \/ RunIndexWritten(r) \/ RunMetaWritten(r) \/ RunEnrich(r)

Next ==
  \/ InitMkdir \/ InitCheck \/ InitLoad \/ InitDecide
  \/ Run
  \/ Tick \/ Crash \/ Start

Spec == Init /\ [][Next]_vars

\* The service with the scheduling of the event loop: the code of
\* initializeCache after the load goes on (lines 73-85), and every await of
\* the background run settles, with a value or with an error, after which
\* the run goes on.
SpecLive == Spec /\ WF_vars(InitDecide) /\ WF_vars(Run)

\* The service on a long corpus, where progressive saves happen.  A pass over
\* the corpus is short against an hour: the clock stands while a run is in its
\* loop.
InLoop(run) == run.pc = "loop" \/ (run.pc \in {"w_index", "w_meta"} /\ ~run.final)

TickIdle ==
  /\ \A r \in DOMAIN runs : ~InLoop(runs[r])
  /\ Tick

InitLong ==
  /\ now = StartTime
  /\ ticks = 0
  /\ corpusExists = TRUE
  /\ corpus = LongCorpus
  /\ indexFile \in InitialIndexFiles
  /\ metaFile = Missing
  /\ up = TRUE
  /\ starts = 1
  /\ inits = 1
  /\ initPc = "mkdir"
  /\ documentationIndex = <<>>
  /\ lastUpdate = Null
  /\ runs = <<>>
  /\ metrics = NoMetrics
  /\ response = NoResponse

NextLong ==
  \/ InitMkdir \/ InitCheck \/ InitLoad \/ InitDecide
  \/ Run
  \/ TickIdle \/ Crash \/ Start

SpecLong == InitLong /\ [][NextLong]_vars

\* The service with initializeCache called a second time by a holder of the
\* exported object, on a corpus that exists, from no snapshot or a fresh one.
InitReinit ==
  /\ Init
  /\ corpusExists
  /\ corpus = [f \in 1..NumFiles |-> "ok"]
  /\ indexFile \in {Missing, IndexData(OldDocs, Some(StartTime - 1))}

\* The second call arrives while the scan of the first run is under way.
ReInitializeEarly ==
  /\ \A r \in DOMAIN runs : runs[r].pc = "scan"
  /\ ReInitialize

\* The steps of a call of initializeCache are taken before a run goes on.
RunAfterInit ==
  /\ initPc \in {"ready", "stopped", "failed"}
  /\ Run

NextReinit ==
  \/ InitMkdir \/ InitCheck \/ InitLoad \/ InitDecide
  \/ RunAfterInit
  \/ ReInitializeEarly

SpecReinit == InitReinit /\ [][NextReinit]_vars

\* The service answering queries through its start: on a corpus of pages that
\* all parse, missing or present, from no snapshot or an old one.
InitServe ==
  /\ Init
  /\ corpus = [f \in 1..NumFiles |-> "ok"]
  /\ indexFile \in {Missing, IndexData(OldDocs, Some(StartTime - 25))}

NextServe ==
  \/ InitMkdir \/ InitCheck \/ InitLoad \/ InitDecide
  \/ Run
  \/ Search \/ GetStats

SpecServe == InitServe /\ [][NextServe]_vars

(***************************************************************************)
(* Queries with options, at several moments, on an index a process has     *)
(* loaded from the snapshot of an indexing run that ended an hour before.  *)
(***************************************************************************)
BuiltAt == StartTime - 1

PageSets ==
  { <<LeavePage, SalesPage, ShortPage>>,
    <<ShortPage, SalesPage, LeavePage>>,
    <<LeavePage, SalesPage, LeaveCopyPage>>,
    <<LeaveGuidePage, SalesPage, LeavePage>> }

QueryIndexes == { IndexOf(pages, BuiltAt) : pages \in PageSets }

\* The moments of a query: at the start, an hour later, six months later.
QueryTimes == {StartTime, StartTime + 1, StartTime + 6 * HoursPerMonth}

QueryStrings == {"congé", "sales"}

QueryOptions ==
  { DefaultOptions,
    [DefaultOptions EXCEPT !.limit = 1],
    [DefaultOptions EXCEPT !.minScore = 50],
    [DefaultOptions EXCEPT !.section = Some("hr")],
    [DefaultOptions EXCEPT !.section = Some("hr"), !.limit = 1],
    [DefaultOptions EXCEPT !.section = Some("sales"), !.minScore = 50],
    [DefaultOptions EXCEPT !.section = Some("")] }

InitQuery ==
  /\ now = StartTime
  /\ ticks = 0
  /\ corpusExists = TRUE
  /\ corpus = [f \in 1..NumFiles |-> "ok"]
  /\ documentationIndex \in QueryIndexes
  /\ lastUpdate = Some(BuiltAt)
  /\ indexFile = IndexData(documentationIndex, lastUpdate)
  /\ metaFile = MetaData(documentationIndex, BuiltAt)
  /\ up = TRUE
  /\ starts = 1
  /\ inits = 1
  /\ initPc = "ready"
  /\ runs = <<>>
  /\ metrics = NoMetrics
  /\ response = NoResponse

\* The value of searchDocumentation(query, options) for each index, query,
\* options and moment of these queries.
SearchValues ==
  [idx \in QueryIndexes, q \in QueryStrings, o \in QueryOptions, t \in QueryTimes |->
     searchDocumentation(Chars(q), o, idx, t)]

\* A call with its moment and its value.
Call(q, o, t, v) == [query |-> q, options |-> o, at |-> t, value |-> v]

\* searchDocumentation(query, options); the response keeps the call and the
\* call before it.
SearchWith ==
  /\ up
  /\ \E q \in QueryStrings, o \in QueryOptions :
       response' = [op |-> "search", query |-> q, options |-> o, at |-> now,
                    value |-> SearchValues[documentationIndex, q, o, now],
                    previous |-> IF response.op = "search"
                                   THEN Some(Call(response.query, response.options,
                                                  response.at, response.value))
                                   ELSE Null]
  /\ UNCHANGED <<now, ticks, corpusExists, corpus, indexFile, metaFile, up, starts,
                 inits, initPc, documentationIndex, lastUpdate, runs,
                 metrics>>

\* Time passes between two requests.
Elapse ==
  /\ \E t \in QueryTimes : t > now /\ now' = t
  /\ UNCHANGED <<ticks, corpusExists, corpus, indexFile, metaFile, up, starts,
                 inits, initPc, documentationIndex, lastUpdate, runs, response,
                 metrics>>

NextQuery == SearchWith \/ Elapse

SpecQuery == InitQuery /\ [][NextQuery]_vars

(***************************************************************************)
(* Calls of the methods that compute from their arguments alone, on the    *)
(* exported object of a process that found no corpus.                      *)
(***************************************************************************)
CallWords == {"", "python", "base", "Leave", "congé", "API", "how", "db", "constructor"}

\* The queries of these calls: one word, or two with a space between.
CallQueries == CallWords \cup { v \o " " \o w : v, w \in CallWords }

InitCalls ==
  /\ now = StartTime
  /\ ticks = 0
  /\ corpusExists = FALSE
  /\ corpus = <<>>
  /\ indexFile = Missing
  /\ metaFile = Missing
  /\ up = TRUE
  /\ starts = 1
  /\ inits = 1
  /\ initPc = "stopped"
  /\ documentationIndex = <<>>
  /\ lastUpdate = Null
  /\ runs = <<>>
  /\ metrics = NoMetrics
  /\ response = NoResponse

\* preprocessSearchTerms(query): the list it returns, or the TypeError.
Preprocess ==
  /\ up
  /\ \E q \in CallQueries :
       response' = [op |-> "preprocessSearchTerms", query |-> q,
                    threw |-> PreprocessThrows(Chars(q)),
                    value |-> IF PreprocessThrows(Chars(q)) THEN <<>>
                              ELSE preprocessSearchTerms(Chars(q))]
  /\ UNCHANGED <<now, ticks, corpusExists, corpus, indexFile, metaFile, up, starts,
                 inits, initPc, documentationIndex, lastUpdate, runs, metrics>>

\* detectQueryType(query)
Classify ==
  /\ up
  /\ \E q \in CallQueries :
       response' = [op |-> "detectQueryType", query |-> q,
                    value |-> detectQueryType(Chars(q))]
  /\ UNCHANGED <<now, ticks, corpusExists, corpus, indexFile, metaFile, up, starts,
                 inits, initPc, documentationIndex, lastUpdate, runs, metrics>>

\* The records and queries of the scoring calls: a page on leave and a page
\* whose content ends with the word "import", as indexed an hour before, and
\* each of them with one more word at the end of its content, every other
\* field as it was.
ScoreCalls ==
  LET words == {"leave", "import"}
      importContent ==
        "Records of a spreadsheet are loaded by the favorites menu of the list view where the last entry of that menu is named import"
      importRecord ==
        [id |-> "applications_loading_records", title |-> "Loading Records",
         description |-> "", content |-> importContent,
         section |-> "applications", subsection |-> "",
         wordCount |-> Len(SplitWhitespace(Chars(importContent))),
         lastUpdated |-> BuiltAt,
         metadata |-> [source |-> Undefined, parser |-> "rst"]]
      base == {RecordOf(LeavePage, BuiltAt), importRecord}
      More(docs) == { [doc EXCEPT !.content = @ \o " " \o w] : doc \in docs, w \in words }
  IN (base \cup More(base)) \X words

\* The score searchDocumentation computes for the record doc and the query q
\* (lines 539-561), for each of these calls.
ScoreValues ==
  [call \in ScoreCalls |->
     calculateAdaptiveScore(call[1], preprocessSearchTerms(Chars(call[2])),
                            Chars(call[2]), detectQueryType(Chars(call[2])),
                            <<>>, StartTime)]

\* The scoring of one record for one query; the response keeps the call and
\* the call before it.
Score ==
  /\ up
  /\ \E call \in ScoreCalls :
       response' = [op |-> "calculateAdaptiveScore", doc |-> call[1], query |-> call[2],
                    value |-> ScoreValues[call],
                    previous |-> IF response.op = "calculateAdaptiveScore"
                                   THEN Some([doc |-> response.doc,
                                              query |-> response.query,
                                              value |-> response.value])
                                   ELSE Null]
  /\ UNCHANGED <<now, ticks, corpusExists, corpus, indexFile, metaFile, up, starts,
                 inits, initPc, documentationIndex, lastUpdate, runs, metrics>>

supportedExtensions == <<".rst", ".md">>
maxFileSize == 1024 * 1024

\* A file check that takes every name.
isAnyFile(filename) == TRUE

\* isRstFile: the name in lower case ends with a supported extension.
isRstFile(filename) ==
  LET name == toLowerCase(Chars(filename))
  IN \E k \in 1..Len(supportedExtensions) :
       LET ext == Chars(supportedExtensions[k])
       IN Len(ext) <= Len(name) /\ MatchesAt(name, ext, Len(name) - Len(ext))

\* scanAllRstFiles(dirPath) on the directory dir: readdir throws on a
\* directory that cannot be read, stat throws on an entry of kind "broken"
\* (a link to nothing); the catch of the method logs and the files found so
\* far in this directory are returned.
RECURSIVE scanAllRstFilesIn(_, _)
RECURSIVE ScanItems(_, _, _)
ScanItems(dirPath, items, files) ==
  IF items = <<>> THEN files
  ELSE LET item == Head(items)
           fullPath == dirPath \o "/" \o item.name
       IN CASE item.kind = "broken" -> files
            [] item.kind = "dir" ->
                 ScanItems(dirPath, Tail(items),
                           files \o scanAllRstFilesIn(fullPath, item))
            [] item.kind = "file" /\ isRstFile(item.name) ->
                 ScanItems(dirPath, Tail(items),
                           IF item.size <= maxFileSize THEN Append(files, fullPath)
                           ELSE files)
            [] OTHER -> ScanItems(dirPath, Tail(items), files)

scanAllRstFilesIn(dirPath, dir) ==
  IF dir.readable THEN ScanItems(dirPath, dir.items, <<>>) ELSE <<>>

\* The directories of the scanning calls: a root that cannot be read, or a
\* root of at most two entries among files at and over the size cap, with
\* supported and other extensions, an entry whose stat fails, a pipe, and
\* sub-directories, readable or not.
ScanTrees ==
  LET Entry(name, kind, size, readable, items) ==
        [name |-> name, kind |-> kind, size |-> size, readable |-> readable,
         items |-> items]
      File(name, size) == Entry(name, "file", size, TRUE, <<>>)
      files == {File("a.rst", maxFileSize), File("b.md", maxFileSize + 1),
                File("README.MD", 10), File("c.txt", 10)}
      entries == files
                 \cup {Entry("x.rst", "broken", 0, TRUE, <<>>),
                       Entry("p.md", "pipe", 0, TRUE, <<>>),
                       Entry("d.md", "dir", 0, FALSE, <<>>),
                       Entry("d.md", "dir", 0, TRUE, <<File("a.rst", maxFileSize)>>)}
      lists == {<<>>} \cup { <<e>> : e \in entries }
                      \cup { <<e, f>> : e, f \in entries }
  IN {Entry("docs", "dir", 0, FALSE, <<>>)}
     \cup { Entry("docs", "dir", 0, TRUE, items) : items \in lists }

\* scanAllRstFiles(root)
Scan ==
  /\ up
  /\ \E root \in ScanTrees :
       response' = [op |-> "scanAllRstFiles", root |-> root,
                    value |-> scanAllRstFilesIn(root.name, root)]
  /\ UNCHANGED <<now, ticks, corpusExists, corpus, indexFile, metaFile, up, starts,
                 inits, initPc, documentationIndex, lastUpdate, runs, metrics>>

NextCalls == Preprocess \/ Classify \/ Score \/ Scan

SpecCalls == InitCalls /\ [][NextCalls]_vars


(***************************************************************************)
(* The claims.                                                             *)
(***************************************************************************)
\* The runs of backgroundIndexing that have not returned.
InFlight == { r \in DOMAIN runs : runs[r].pc # "done" }

\* A refresh is due: no prior lastUpdate, or more than updateInterval ago.
Due(lu, t) == lu = Null \/ t - lu[1] > UpdateInterval

\* A snapshot file that is there, is JSON and carries the expected tags.
Trusted(file) ==
  file.kind = "json" /\ file.version = CacheVersion /\ file.source = CacheSource

\* initializeCache takes the step from the staleness check to "ready".
Decides == initPc = "decide" /\ initPc' = "ready"

\* That step launches a run, which stands at its scan.
Launches == Len(runs') = Len(runs) + 1 /\ runs'[Len(runs')].pc = "scan"

\* C1: at no time are two indexing pipelines in flight in one service
\* instance, also when initializeCache is executed again during a run.
C1_SingleFlight == Cardinality(InFlight) <= 1

\* C2: a primary snapshot file that is complete stays complete in every step
\* of a save, so that a crash at any point of the write, which leaves the
\* file as it is at that point, leaves a readable file to the next start.
C2_SnapshotStaysReadable == [][indexFile.kind = "json" => indexFile'.kind = "json"]_vars

\* C3: when a run has completed and its snapshot is in the primary file, a
\* new instance that loads the file less than updateInterval after the run
\* finds no refresh due.
C3_NoReindexAfterRestart ==
  \A r \in DOMAIN runs :
    ( /\ up /\ runs[r].pc = "done"
      /\ indexFile.kind = "json"
      /\ lastUpdate # Null /\ now - lastUpdate[1] < UpdateInterval )
    => ~shouldUpdate(LoadedLastUpdate(indexFile, Null), now)

\* C4: a search returns a value for every query and every index; it never
\* throws.
C4_SearchNeverThrows == response.op = "search" => ~response.value.threw

C6_Lifecycle ==
  [][ /\ initPc \in {"mkdir", "check", "load"} => runs = <<>> /\ runs' = <<>>
      /\ Len(runs') > Len(runs) => Decides /\ Launches /\ Due(lastUpdate, now)
      /\ (initPc' = "ready" /\ initPc # "ready") => initPc = "decide"
    ]_vars

\* The service is ready while its background run is in the loop.
C6_Witness ==
  /\ initPc = "ready"
  /\ \E r \in DOMAIN runs : runs[r].pc = "loop" /\ runs[r].i > 0

\* C7: the staleness check launches a run exactly when there is no lastUpdate
\* or now - lastUpdate > updateInterval: for a lastUpdate 25 hours old it
\* does, for one an hour old or exactly updateInterval old it does not.
C7_StalenessCheck ==
  [][ Decides
      => /\ Launches <=> Due(lastUpdate, now)
         /\ runs' = runs <=> ~Due(lastUpdate, now)
         /\ lastUpdate = Some(now - 25) => Launches
         /\ lastUpdate = Some(now - 1) => runs' = runs
         /\ lastUpdate = Some(now - UpdateInterval) => runs' = runs
    ]_vars

\* The staleness test has found a lastUpdate of 25 hours ago stale and launched a run.
C7_Witness ==
  /\ initPc = "ready" /\ lastUpdate = Some(now - 25)
  /\ Len(runs) = 1 /\ runs[1].pc = "scan"

\* C8: the load of a snapshot file that is missing, no JSON or wrongly tagged
\* ends without an error, with the index empty and lastUpdate unset, and the
\* staleness check after it launches a run.
C8_UntrustedSnapshot ==
  [][ ~Trusted(indexFile)
      => /\ (initPc = "load" /\ up' /\ initPc' # "load")
            => /\ initPc' = "decide"
               /\ documentationIndex' = <<>> /\ lastUpdate' = Null
         /\ Decides => Launches
    ]_vars

\* A wrongly tagged snapshot was discarded and the run launched.
C8_Witness ==
  /\ initPc = "ready" /\ indexFile.kind = "json" /\ ~Trusted(indexFile)
  /\ documentationIndex = <<>> /\ lastUpdate = Null
  /\ Len(runs) = 1 /\ runs[1].pc = "scan"

C10_SnapshotHasSynthetic ==
  \A r \in DOMAIN runs :
    (up /\ runs[r].pc = "done" /\ indexFile.kind = "json")
    => SyntheticIds \subseteq Ids(LoadedIndex(indexFile, <<>>))

\* C11: when a run has ended, with every file indexed, some, or none, its
\* saves done or failed, the index has every synthetic document, each with
\* metadata.source = "synthetic".
C11_EnrichedAfterRun ==
  \A r \in DOMAIN runs :
    runs[r].pc = "done"
    => /\ SyntheticIds \subseteq Ids(documentationIndex)
       /\ \A k \in 1..Len(documentationIndex) :
            documentationIndex[k].id \in SyntheticIds
            => documentationIndex[k].metadata.source = "synthetic"

\* A run has ended that indexed only some of its files and whose save
\* failed; the index is enriched.
C11_Witness ==
  \E r \in DOMAIN runs :
    /\ runs[r].pc = "done"
    /\ runs[r].processedCount > 0 /\ runs[r].processedCount < Len(corpus)
    /\ indexFile = Partial
    /\ SyntheticIds \subseteq Ids(documentationIndex)

\* C12: when a save has written the primary file, a new instance that loads
\* the file has the index that was saved: the same ids in the same order, the
\* same count, for every id the saved record, and the saved lastUpdate.
C12_RoundTrip ==
  [][ (indexFile' # indexFile /\ indexFile'.kind = "json")
      => /\ LoadedIndex(indexFile', <<>>) = documentationIndex
         /\ Len(LoadedIndex(indexFile', <<>>)) = indexFile'.totalDocuments
         /\ LoadedLastUpdate(indexFile', Null) = lastUpdate
    ]_vars

\* A second process has loaded the snapshot the first one saved: the old
\* documents and those of the corpus.
C12_Witness ==
  /\ starts = 2 /\ initPc = "decide"
  /\ indexFile.kind = "json"
  /\ Len(documentationIndex) > Len(OldDocs)
  /\ documentationIndex = LoadedIndex(indexFile, <<>>)

(***************************************************************************)
(* Queries with options.                                                   *)
(***************************************************************************)
\* The response of a call of searchDocumentation with options that returned.
Answered == response.op = "search" /\ ~response.value.threw

QueryDocs ==
  UNION { { idx[k] : k \in 1..Len(idx) } : idx \in QueryIndexes }

\* The score of a document for a query without contextual terms at time t.
DocScores ==
  [doc \in QueryDocs, q \in QueryStrings, t \in QueryTimes |->
     calculateAdaptiveScore(doc, preprocessSearchTerms(Chars(q)), Chars(q),
                            detectQueryType(Chars(q)), <<>>, t)]

ScoreNow(doc) == DocScores[doc, response.query, response.at]

ResultIds == { response.value.results[k].id : k \in 1..Len(response.value.results) }

\* C13: a returned result has a score above 10 and of at least minScore, and
\* a document whose score for the query is 10 or less is in no result,
\* whatever minScore is.
C13_QualityFloor ==
  Answered
  => /\ \A k \in 1..Len(response.value.results) :
          /\ response.value.results[k].score > QualityFloor * Thousand
          /\ response.value.results[k].score >= response.options.minScore * Thousand
     /\ \A k \in 1..Len(documentationIndex) :
          ScoreNow(documentationIndex[k]) <= QualityFloor * Thousand
          => documentationIndex[k].id \notin ResultIds

\* A call with minScore 0 returned a result and left out a document whose
\* score reaches minScore and is not above 10.
C13_Witness ==
  /\ Answered
  /\ response.options.minScore = 0
  /\ response.value.results # <<>>
  /\ \E k \in 1..Len(documentationIndex) :
       /\ PassesSection(documentationIndex[k], response.options)
       /\ ScoreNow(documentationIndex[k]) <= QualityFloor * Thousand
       /\ documentationIndex[k].id \notin ResultIds

\* C14 as stated: when the call has a section option, every result has
\* exactly that section.
C14_SectionFilter ==
  (Answered /\ response.options.section # Null)
  => \A k \in 1..Len(response.value.results) :
       response.value.results[k].section = response.options.section[1]

\* C14, amended: when the call has a section option that is not the empty
\* string, every result has exactly that section, and no document of another
\* section is in the results.
C14_NonEmptySectionFilter ==
  (Answered /\ response.options.section # Null /\ response.options.section # Some(""))
  => /\ \A k \in 1..Len(response.value.results) :
          response.value.results[k].section = response.options.section[1]
     /\ \A k \in 1..Len(documentationIndex) :
          documentationIndex[k].section # response.options.section[1]
          => documentationIndex[k].id \notin ResultIds

\* A call for the section hr returned a result and left out a document of
\* another section whose score is above the floor.
C14_Witness ==
  /\ Answered
  /\ response.options.section = Some("hr")
  /\ response.value.results # <<>>
  /\ \E k \in 1..Len(documentationIndex) :
       /\ documentationIndex[k].section # "hr"
       /\ ScoreNow(documentationIndex[k]) > QualityFloor * Thousand
       /\ documentationIndex[k].id \notin ResultIds

\* The sections of the returned results, each once, in the order of the
\* results.
ReturnedSections ==
  Distinct([k \in 1..Len(response.value.results) |-> response.value.results[k].section])

\* C15: sourcesSummary has one entry for each section of a returned result,
\* and no entry for a section without a returned result.
C15_SummaryOfReturned ==
  Answered
  => response.value.sourcesSummary
       = [k \in 1..Len(ReturnedSections) |-> SourceSummary(ReturnedSections[k])]

\* The documents of the index that pass the filters of the call: the section
\* filter, minScore and the floor.
Passing ==
  { k \in 1..Len(documentationIndex) :
      /\ PassesSection(documentationIndex[k], response.options)
      /\ ScoreNow(documentationIndex[k]) >= response.options.minScore * Thousand
      /\ ScoreNow(documentationIndex[k]) > QualityFloor * Thousand }

\* C16: the results are in order of non-increasing score, are at most limit,
\* and are the limit documents of highest score among those that pass the
\* filters, each with its score.
C16_TopByScore ==
  Answered
  => LET results == response.value.results
         n == Cardinality(Passing)
     IN /\ \A j, k \in 1..Len(results) : j < k => results[j].score >= results[k].score
        /\ Len(results) <= response.options.limit
        /\ Len(results) = IF n < response.options.limit THEN n ELSE response.options.limit
        /\ \A k \in 1..Len(results) :
             \E d \in Passing :
               /\ documentationIndex[d].id = results[k].id
               /\ ScoreNow(documentationIndex[d]) = results[k].score
        /\ \A d \in Passing :
             documentationIndex[d].id \notin ResultIds
             => \A k \in 1..Len(results) :
                  results[k].score >= ScoreNow(documentationIndex[d])

\* A call with limit 1 returned the document of highest score and left out
\* one that passes the filters and comes before it in the index.
C16_Witness ==
  /\ Answered
  /\ response.options.limit = 1
  /\ Len(response.value.results) = 1
  /\ \E d, e \in Passing :
       /\ d < e
       /\ documentationIndex[e].id \in ResultIds
       /\ documentationIndex[d].id \notin ResultIds
       /\ ScoreNow(documentationIndex[d]) < ScoreNow(documentationIndex[e])

\* The call before this one had the same query and the same options.
Repeated ==
  /\ Answered
  /\ response.previous # Null
  /\ response.previous[1].query = response.query
  /\ response.previous[1].options = response.options

\* Results of equal score are in the order of the index.
TiesInIndexOrder ==
  LET results == response.value.results
      Position(id) == CHOOSE k \in 1..Len(documentationIndex) : documentationIndex[k].id = id
  IN \A j, k \in 1..Len(results) :
       (j < k /\ results[j].score = results[k].score)
       => Position(results[j].id) < Position(results[k].id)

\* C17 as stated: two calls with the same query and the same options on the
\* same index return the same results in the same order, results of equal
\* score in the order of the index.
C17_Deterministic ==
  /\ Repeated => response.previous[1].value = response.value
  /\ Answered => TiesInIndexOrder

\* The tier of the recency bonus of a document at time t.
AgeTier(doc, t) ==
  IF t - doc.lastUpdated < 6 * HoursPerMonth THEN "recent"
  ELSE IF t - doc.lastUpdated < 12 * HoursPerMonth THEN "this year" ELSE "old"

SameAgeTiers(t, u) ==
  \A k \in 1..Len(documentationIndex) :
     AgeTier(documentationIndex[k], t) = AgeTier(documentationIndex[k], u)

\* C17, amended: two calls with the same query and the same options on the
\* same index return the same results in the same order when every document
\* is in the same tier of age at both calls, and results of equal score are
\* in the order of the index.
C17_DeterministicInAgeTier ==
  /\ (Repeated /\ SameAgeTiers(response.previous[1].at, response.at))
     => response.previous[1].value = response.value
  /\ Answered => TiesInIndexOrder

\* The same call an hour apart, with two results of equal score.
C17_Witness ==
  /\ Repeated
  /\ response.previous[1].at < response.at
  /\ SameAgeTiers(response.previous[1].at, response.at)
  /\ \E j, k \in 1..Len(response.value.results) :
       j < k /\ response.value.results[j].score = response.value.results[k].score

\* The index built from the three pages: the leave page, the sales page and
\* the short note, in either order.
ScenarioIndexes ==
  { IndexOf(<<LeavePage, SalesPage, ShortPage>>, BuiltAt),
    IndexOf(<<ShortPage, SalesPage, LeavePage>>, BuiltAt) }

InScenario ==
  /\ Answered
  /\ documentationIndex \in ScenarioIndexes
  /\ response.query = "congé"
  /\ response.options = DefaultOptions

\* C18: on the index built from the three pages, the query "congé" returns
\* the leave page first with a score above zero, does not return the short
\* note, and has an entry of sourcesSummary that mentions hr.
C18_Scenario ==
  InScenario
  => /\ response.value.results # <<>>
     /\ response.value.results[1].title = "Leave Configuration"
     /\ response.value.results[1].score > 0
     /\ \A k \in 1..Len(response.value.results) :
          /\ response.value.results[k].id # ShortPage.id
          /\ response.value.results[k].title # ShortPage.title
     /\ \E k \in 1..Len(response.value.sourcesSummary) :
          Includes(response.value.sourcesSummary[k], Chars("hr"))

\* The query of the scenario has been answered, six months after the index
\* was built.
C18_Witness ==
  /\ InScenario
  /\ response.at > StartTime + 1
  /\ Len(documentationIndex) = 2
  /\ response.value.results # <<>>

(***************************************************************************)
(* Files that fail in an indexing run.                                     *)
(***************************************************************************)
\* The files whose read fails, and those that give a record.
FailedFiles == { f \in 1..Len(corpus) : corpus[f] = "unreadable" }

IndexedFiles == { f \in 1..Len(corpus) : processRstFile(f, now) # Null }

\* Run r leaves indexGitHubDocumentation in this step.
LeavesIndexing(r) ==
  /\ r \in DOMAIN runs /\ r \in DOMAIN runs'
  /\ runs[r].pc \notin {"enrich", "done"}
  /\ runs'[r].pc = "enrich"

\* C19: when a run over a corpus with an unreadable file leaves the indexing,
\* the loop has handled every file, every file that gives a record is in the
\* index, the final save has written the snapshot with these records unless
\* the write itself failed, and lastUpdate is the time of this moment.
C19_FailureDoesNotAbort ==
  [][ \A r \in DOMAIN runs :
        (LeavesIndexing(r) /\ FailedFiles # {})
        => /\ runs'[r].i = Len(scanAllRstFiles)
           /\ runs'[r].processedCount = Cardinality(IndexedFiles)
           /\ \A f \in IndexedFiles :
                generateDocumentId(RelativePath(f)) \in Ids(documentationIndex')
           /\ \/ indexFile' = Partial
              \/ /\ indexFile'.kind = "json"
                 /\ \A f \in IndexedFiles :
                      generateDocumentId(RelativePath(f))
                        \in Ids(LoadedIndex(indexFile', <<>>))
           /\ lastUpdate' = Some(now)
    ]_vars

\* A run has ended over a corpus whose first file is unreadable: the file
\* after it is in the index and in the snapshot, and lastUpdate is set.
C19_Witness ==
  /\ 1 \in FailedFiles
  /\ \E r \in DOMAIN runs :
       /\ runs[r].pc = "done"
       /\ runs[r].i = Len(corpus)
       /\ runs[r].processedCount > 0
  /\ indexFile.kind = "json"
  /\ \E f \in IndexedFiles :
       /\ f > 1
       /\ generateDocumentId(RelativePath(f)) \in Ids(LoadedIndex(indexFile, <<>>))
  /\ lastUpdate # Null

\* C20: the pass of the loop over a file whose read fails adds one to
\* failedFiles.
C20_FailedFilesCounted ==
  [][ \A r \in DOMAIN runs :
        ( /\ r \in DOMAIN runs'
          /\ runs[r].pc = "loop"
          /\ runs'[r].i = runs[r].i + 1
          /\ scanAllRstFiles[runs'[r].i] \in FailedFiles )
        => metrics'.failedFiles = metrics.failedFiles + 1
    ]_vars

(***************************************************************************)
(* Progressive saves of a long run.                                        *)
(***************************************************************************)
\* The ids of the first n documents a run over the corpus indexes.
FirstIndexedIds(n) ==
  { generateDocumentId(RelativePath(f)) :
      f \in { g \in IndexedFiles :
                Cardinality({ h \in IndexedFiles : h <= g }) <= n } }

\* The ids of the documents a start would load from the snapshot file.
SnapshotIds(file) == IF file.kind = "json" THEN Ids(FromEntries(file.documents)) ELSE {}

\* A run in indexGitHubDocumentation: in its loop or in a save.
MidRun(run) == run.pc \in {"loop", "w_index", "w_meta"}

\* The saves of a run: a run that has left indexGitHubDocumentation with k
\* documents indexed has called saveIndexToCache floor(k/50) + 1 times.
C21_SavesOfARun ==
  \A r \in DOMAIN runs :
    runs[r].pc \in {"enrich", "done"}
    => runs[r].saves = (runs[r].processedCount \div SaveEvery) + 1

C21_SavesWitness ==
  \E r \in DOMAIN runs :
    runs[r].pc = "done" /\ runs[r].processedCount > SaveEvery /\ runs[r].saves = 2

\* C21: when the process crashes during a run that has indexed k documents,
\* the snapshot file the crash leaves holds the first 50 * floor(k/50)
\* documents of the run.
C21_ProgressSurvivesCrash ==
  [][ (up /\ ~up')
      => \A r \in DOMAIN runs :
           MidRun(runs[r])
           => FirstIndexedIds(SaveEvery * (runs[r].processedCount \div SaveEvery))
                \subseteq SnapshotIds(indexFile')
    ]_vars

\* The crash comes while the final save of a run of more than 50 documents
\* writes the file: the progressive snapshot of the first 50 is lost.
C21_LostProgress ==
  /\ ~up
  /\ indexFile = Partial
  /\ metaFile.kind = "json"
  /\ metaFile.totalDocuments >= SaveEvery

(***************************************************************************)
(* The minimum content length.                                             *)
(***************************************************************************)
Synthetic(doc) == doc.metadata.source = "synthetic"

\* Run r makes a pass of its loop over file f in this step.
PassOver(r, f) ==
  /\ r \in DOMAIN runs /\ r \in DOMAIN runs'
  /\ runs[r].pc = "loop"
  /\ runs'[r].i = runs[r].i + 1
  /\ scanAllRstFiles[runs'[r].i] = f

ShortFiles == { f \in 1..Len(corpus) : Len(CleanContent(f)) < MinContentLength }

\* C22: after every step each record of the index that is not synthetic has
\* content of 100 characters or more; and for a file whose cleaned content
\* is shorter the parser gives null and the pass over it leaves the index as
\* it was.
C22_MinimumContent ==
  [][ /\ \A k \in 1..Len(documentationIndex') :
           ~Synthetic(documentationIndex'[k])
           => Len(documentationIndex'[k].content) >= MinContentLength
      /\ \A r \in DOMAIN runs : \A f \in ShortFiles :
           PassOver(r, f)
           => /\ processRstFile(f, now) = Null
              /\ documentationIndex' = documentationIndex
    ]_vars

\* A run has ended over a corpus with a short file: the index holds a page of
\* the corpus and the synthetic documents, whose content is under 100
\* characters, and no record of the short file.
C22_Witness ==
  /\ \E r \in DOMAIN runs : runs[r].pc = "done" /\ runs[r].i = Len(corpus)
  /\ \E f \in ShortFiles :
       corpus[f] = "short" /\ generateDocumentId(RelativePath(f)) \notin Ids(documentationIndex)
  /\ \E k \in 1..Len(documentationIndex) :
       /\ ~Synthetic(documentationIndex[k])
       /\ documentationIndex[k].lastUpdated >= StartTime
  /\ \E k \in 1..Len(documentationIndex) :
       /\ Synthetic(documentationIndex[k])
       /\ Len(documentationIndex[k].content) < MinContentLength

(***************************************************************************)
(* The counters of this.metrics.                                           *)
(***************************************************************************)
\* C23: in a step of a running process none of totalFiles, processedFiles,
\* failedFiles and totalBytesProcessed decreases.
C23_CountersNeverDecrease ==
  [][ (up /\ up')
      => /\ metrics'.totalFiles >= metrics.totalFiles
         /\ metrics'.processedFiles >= metrics.processedFiles
         /\ metrics'.failedFiles >= metrics.failedFiles
         /\ metrics'.totalBytesProcessed >= metrics.totalBytesProcessed
    ]_vars

\* Two runs of one process have ended and the counters hold the files of
\* both.
C23_Witness ==
  /\ Len(runs) = 2
  /\ \A r \in DOMAIN runs : runs[r].pc = "done"
  /\ metrics.processedFiles = 2 * NumFiles
  /\ metrics.totalBytesProcessed > MinContentLength * NumFiles

(***************************************************************************)
(* The query preprocessor and the query classifier.                        *)
(***************************************************************************)
Preprocessed == response.op = "preprocessSearchTerms" /\ ~response.threw

\* The lower-cased tokens of the query of the response that are longer than
\* two characters.
LongTokens ==
  LET tokens == SplitWhitespace(toLowerCase(Chars(response.query)))
  IN { tokens[k] : k \in { j \in 1..Len(tokens) : Len(tokens[j]) > 2 } }

\* C26: every term preprocessSearchTerms returns is lower-case and longer
\* than 2 characters, no term is returned twice, and every lower-cased token
\* of the query that is longer than 2 characters is returned.
C26_PreprocessedTerms ==
  Preprocessed
  => LET terms == response.value
     IN /\ \A k \in 1..Len(terms) :
             terms[k] = toLowerCase(terms[k]) /\ Len(terms[k]) > 2
        /\ \A j, k \in 1..Len(terms) : terms[j] = terms[k] => j = k
        /\ \A token \in LongTokens : \E k \in 1..Len(terms) : terms[k] = token

\* The same without the length of the terms that the dictionaries add.
C26_TermsButExpansionLength ==
  Preprocessed
  => LET terms == response.value
     IN /\ \A k \in 1..Len(terms) :
             /\ terms[k] = toLowerCase(terms[k])
             /\ terms[k] \in LongTokens => Len(terms[k]) > 2
        /\ \A j, k \in 1..Len(terms) : terms[j] = terms[k] => j = k
        /\ \A token \in LongTokens : \E k \in 1..Len(terms) : terms[k] = token

\* A query with an upper-case word and a word of the dictionaries, whose
\* expansion is returned.
C26_ExpandedWitness ==
  /\ Preprocessed
  /\ response.query = "Leave base"
  /\ Len(response.value) > 2

\* A keyword of a domain or of an intent, or a word of one of the two
\* complexity patterns, is in the lower-cased query of the response.
PatternMatches ==
  LET queryLower == toLowerCase(Chars(response.query))
      keywords == UNION { { modulePatterns[k][2][j] : j \in 1..Len(modulePatterns[k][2]) } :
                            k \in 1..Len(modulePatterns) }
                  \cup UNION { { actionPatterns[k][2][j] : j \in 1..Len(actionPatterns[k][2]) } :
                                 k \in 1..Len(actionPatterns) }
                  \cup { technicalWords[k] : k \in 1..Len(technicalWords) }
                  \cup { beginnerWords[k] : k \in 1..Len(beginnerWords) }
  IN \E word \in keywords : Includes(queryLower, Chars(word))

\* C27: detectQueryType returns a list that is not empty; "general" is in it
\* exactly when no pattern matches the query, and is then its only tag;
\* "technical" and "beginner" are not both in it.
C27_QueryTags ==
  response.op = "detectQueryType"
  => LET tags == response.value
     IN /\ Len(tags) > 0
        /\ Has(tags, "general") <=> ~PatternMatches
        /\ Has(tags, "general") => tags = <<"general">>
        /\ ~(Has(tags, "technical") /\ Has(tags, "beginner"))

\* A query with a word of each complexity pattern is tagged technical, and
\* development for its keyword "api".
C27_Witness ==
  /\ response.op = "detectQueryType"
  /\ response.query = "how API"
  /\ Has(response.value, "technical")
  /\ Has(response.value, "development")

(***************************************************************************)
(* The score and the occurrences of a term.                                *)
(***************************************************************************)
\* The record of the response is the record of the call before it with one
\* more occurrence of the query, a single word, at the end of its content;
\* the query is the same.
OneMoreOccurrence ==
  /\ response.op = "calculateAdaptiveScore"
  /\ response.previous # Null
  /\ response.query = response.previous[1].query
  /\ response.doc =
       [response.previous[1].doc EXCEPT !.content = @ \o " " \o response.query]

\* C25: the score of a record with one more occurrence of a query term in
\* its content is not below the score of the record without it.
C25_ScoreMonotone ==
  OneMoreOccurrence => response.value >= response.previous[1].value

\* The same for a record that has, before and after, none or each of the
\* texts "class ", "def ", "import " and "from " that the quality adjustment
\* looks for.
C25_MonotoneButPenalty ==
  LET Penalised(doc) ==
        IncludesAny(toLowerCase(Chars(doc.content)), <<"class ", "def ", "import ", "from ">>)
  IN (OneMoreOccurrence /\ (Penalised(response.doc) <=> Penalised(response.previous[1].doc)))
     => response.value >= response.previous[1].value

\* One more "leave" in the page on leave has raised its score.
C25_RaisedWitness ==
  /\ OneMoreOccurrence
  /\ response.query = "leave"
  /\ response.value > response.previous[1].value

(***************************************************************************)
(* The end of the background run.                                          *)
(***************************************************************************)
\* initializeCache has found the corpus and loaded the cache, and a refresh
\* is due.
RefreshDue == up /\ initPc = "decide" /\ shouldUpdate(lastUpdate, now)

\* The background run of the process is over: the loop has passed every
\* scanned file, the final save was called, lastUpdate is set, and the
\* process is up.
RunOver ==
  /\ up /\ runs # <<>>
  /\ runs[1].pc = "done"
  /\ runs[1].i = Len(scanAllRstFiles)
  /\ runs[1].final /\ runs[1].saves >= 1
  /\ lastUpdate # Null

\* C24: when the corpus root exists and a refresh is due, the background run
\* ends, unless the process is killed from outside: every scanned file went
\* through the loop, the final save was called, lastUpdate is set and the
\* process is up, whatever reads and writes failed.
C24_RunTerminates == RefreshDue ~> (RunOver \/ ~up)

\* A run is over in which a file could not be read and the write of the
\* primary snapshot file failed.
C24_Witness ==
  /\ RunOver
  /\ \E f \in DOMAIN corpus : corpus[f] = "unreadable"
  /\ indexFile = Partial

(***************************************************************************)
(* The scan of the corpus.                                                 *)
(***************************************************************************)
\* The entries below the directory dir, each with its path.
RECURSIVE EntriesBelow(_, _)
EntriesBelow(dirPath, dir) ==
  UNION { LET fullPath == dirPath \o "/" \o dir.items[k].name
          IN {<<fullPath, dir.items[k]>>}
             \cup (IF dir.items[k].kind = "dir"
                     THEN EntriesBelow(fullPath, dir.items[k]) ELSE {})
          : k \in 1..Len(dir.items) }

\* The name ends with ext, letter for letter.
NameEndsWith(name, ext) ==
  Len(ext) <= Len(name) /\ SubSeq(name, Len(name) - Len(ext) + 1, Len(name)) = ext

\* The name ends with ext, whatever the case of its letters.
NameEndsWithAnyCase(name, ext) ==
  /\ Len(ext) <= Len(name)
  /\ toLowerCase(Chars(SubSeq(name, Len(name) - Len(ext) + 1, Len(name)))) = Chars(ext)

\* The scan has returned, without raising: every path it returned is the
\* path of a file of at most 1 MB; no file over 1 MB is returned; a root that
\* cannot be read gives the empty list.
ScanWithinSizeAndRoot ==
  /\ \A k \in 1..Len(response.value) :
       \E e \in EntriesBelow(response.root.name, response.root) :
         e[1] = response.value[k] /\ e[2].kind = "file" /\ e[2].size <= 1024 * 1024
  /\ ~response.root.readable => response.value = <<>>

\* Every returned path is a path of some entry whose name ends as End says.
ReturnedNamesEnd(End(_, _)) ==
  \A k \in 1..Len(response.value) :
    \E e \in EntriesBelow(response.root.name, response.root) :
      /\ e[1] = response.value[k]
      /\ End(e[2].name, ".rst") \/ End(e[2].name, ".md")

\* C28: the scan returns only files whose name ends with .rst or .md and
\* whose size is at most 1 MB; a file over 1 MB is skipped without error; a
\* missing or unreadable root gives the empty list without raising.
C28_ScanReturnsSupported ==
  response.op = "scanAllRstFiles"
    => ScanWithinSizeAndRoot /\ ReturnedNamesEnd(NameEndsWith)

\* C28 with the extension compared without regard to the case of letters.
C28_ScanReturnsSupportedAnyCase ==
  response.op = "scanAllRstFiles"
    => ScanWithinSizeAndRoot /\ ReturnedNamesEnd(NameEndsWithAnyCase)

\* A scan of a root holding a file over 1 MB with a supported extension,
\* followed by a file of exactly 1 MB: the second is returned alone.
C28_OversizedSkipped ==
  /\ response.op = "scanAllRstFiles"
  /\ Len(response.root.items) = 2
  /\ response.root.items[1].kind = "file"
  /\ response.root.items[1].size > 1024 * 1024
  /\ response.value = <<"docs/a.rst">>

(***************************************************************************)
(* Progressive snapshots and the staleness check.                          *)
(***************************************************************************)
\* The snapshot file holds the first 50 documents of a run and not all the
\* documents of the corpus: a progressive save wrote it.
ProgressiveSnapshot(file) ==
  /\ file.kind = "json"
  /\ FirstIndexedIds(SaveEvery) \subseteq SnapshotIds(file)
  /\ ~(FirstIndexedIds(Len(corpus)) \subseteq SnapshotIds(file))

\* A progressive save of run r ends in this step with the primary file
\* written.
WritesProgressive(r) ==
  /\ up /\ up'
  /\ r \in DOMAIN runs /\ runs[r].pc = "w_index" /\ ~runs[r].final
  /\ indexFile' = runs[r].pending[1].data

\* C29: a progressive snapshot carries the lastUpdate the run started with,
\* one that made a refresh due; and a later start that has loaded a
\* progressive snapshot decides again that a refresh is due.
C29_PartialIndexIsStale ==
  /\ [][ \A r \in DOMAIN runs :
           WritesProgressive(r)
           => /\ indexFile'.lastUpdate = lastUpdate
              /\ shouldUpdate(indexFile'.lastUpdate, now) ]_vars
  /\ [](  (up /\ starts >= 2 /\ initPc = "decide" /\ ProgressiveSnapshot(indexFile))
          => shouldUpdate(lastUpdate, now) )

\* A second process has loaded the progressive snapshot of the first, which
\* crashed in its run, and is about to decide.
C29_Witness ==
  /\ up /\ starts >= 2 /\ initPc = "decide"
  /\ ProgressiveSnapshot(indexFile)
  /\ Len(documentationIndex) >= SaveEvery

(***************************************************************************)
(* The queries leave the service as it was.                                *)
(***************************************************************************)
\* The step is a call of searchDocumentation or of getStats.
QueryStep == up /\ response'.op \in {"search", "getStats"}

\* The record without its score.
WithoutScore(result) == [f \in DOMAIN result \ {"score"} |-> result[f]]

\* C30: a call of search or getStats leaves the index (its ids and every
\* record), lastUpdate, the counters and both snapshot files as they were;
\* the records search returns are copies that carry the score, the stored
\* records carry none.
C30_QueriesReadOnly ==
  [][ QueryStep
      => /\ documentationIndex' = documentationIndex
         /\ lastUpdate' = lastUpdate
         /\ metrics' = metrics
         /\ indexFile' = indexFile /\ metaFile' = metaFile
         /\ \A k \in 1..Len(documentationIndex') :
              "score" \notin DOMAIN documentationIndex'[k]
         /\ response'.op = "search"
            => \A j \in 1..Len(response'.value.results) :
                 \E k \in 1..Len(documentationIndex') :
                   documentationIndex'[k] = WithoutScore(response'.value.results[j])
    ]_vars

\* A search has returned a record of an index that a run has filled.
C30_Witness ==
  /\ response.op = "search"
  /\ Len(response.value.results) >= 1
  /\ metrics.processedFiles >= 1
  /\ \E k \in 1..Len(documentationIndex) :
       documentationIndex[k] = WithoutScore(response.value.results[1])

====
